---- MODULE Spec2Model ----
(***************************************************************************)
(* Hayward pool heater NET-port bus engine (components/hwp).               *)
(*                                                                         *)
(* Bytes are integers 0..255.  A packet is [data, data_len] with data a    *)
(* function on 0..11 (hp_packetdata_t).  Pulse durations are microseconds, *)
(* clock values are milliseconds.  A uint32_t millisecond value x is kept  *)
(* as the integer congruent to x modulo 2^32 that lies in [-2^31, 2^31):   *)
(* values just below the wrap of millis() are small negative numbers, so   *)
(* uint32_t addition is integer addition and the unsigned order is U32Less.*)
(***************************************************************************)
EXTENDS Integers, Sequences, FiniteSets, TLC

(***************************************************************************)
(* Program constants                                                        *)
(***************************************************************************)
frame_data_length == 12
frame_data_length_short == 9
pulse_duration_threshold_us == 600
frame_heading_low_duration_ms == 9
frame_heading_high_duration_ms == 5
bit_long_high_duration_ms == 3
bit_low_duration_ms == 1
bit_short_high_duration_ms == bit_low_duration_ms
frame_end_threshold_ms == 50
controler_group_spacing_ms == 250
controler_frame_spacing_duration_ms == 100
delay_between_sending_messages_ms == 10 * 1000
delay_between_controller_messages_ms == 60 * 1000
frame_heading_total_duration_ms ==
    frame_heading_low_duration_ms + frame_heading_high_duration_ms
default_frame_transmit_count == 8
single_frame_max_duration_ms ==
    frame_data_length * 8 * (bit_long_high_duration_ms + bit_low_duration_ms)
    + controler_frame_spacing_duration_ms + frame_heading_total_duration_ms
maxWriteLength == 8
TxStartupDelay == 15000
TxPollDelay == 1500
RxPopTimeoutMs == 120

FRAME_ID_CONF_1 == 129
FRAME_ID_CONF_2 == 130
FRAME_ID_CONF_3 == 131
FRAME_ID_CONF_5 == 133
FRAME_ID_CONF_6 == 134
FRAME_ID_CONF_4 == 132
FRAME_ID_CLOCK == 207
FRAME_ID_CONDITIONS_1 == 209
FRAME_ID_CONDITIONS2 == 210

SOURCE_UNKNOWN == "SOURCE_UNKNOWN"
SOURCE_HEATER == "SOURCE_HEATER"
SOURCE_CONTROLLER == "SOURCE_CONTROLLER"
BUSMODE_TX == "BUSMODE_TX"
BUSMODE_RX == "BUSMODE_RX"

\* optional<T>: the empty set is nullopt, a singleton holds the value
nullopt == {}
make_optional(v) == {v}
has_value(o) == o # {}
value(o) == CHOOSE v \in o : TRUE
value_or(o, default) == IF o = {} THEN default ELSE value(o)

(***************************************************************************)
(* Bytes and bits (HPUtils.h)                                               *)
(***************************************************************************)
Byte == 0..255

RECURSIVE Pow2(_)
Pow2(n) == IF n = 0 THEN 1 ELSE 2 * Pow2(n - 1)

get_bit(byte, position) == (byte \div Pow2(position)) % 2 = 1

set_bit(byte, position) ==
    IF get_bit(byte, position) THEN byte ELSE byte + Pow2(position)

clear_bit(byte, position) ==
    IF get_bit(byte, position) THEN byte - Pow2(position) ELSE byte

put_bit(byte, position, on) ==
    IF on THEN set_bit(byte, position) ELSE clear_bit(byte, position)

\* ~x on a uint8_t
inverse_byte(byte) == 255 - byte

(***************************************************************************)
(* hp_packetdata_t (Schema.h)                                               *)
(***************************************************************************)
DataIdx == 0..(frame_data_length - 1)

ZeroData == [i \in DataIdx |-> 0]

packet_reset == [data |-> ZeroData, data_len |-> 0]

get_type(packet) == packet.data[0]

get_checksum_pos(packet) ==
    IF packet.data_len >= frame_data_length
    THEN frame_data_length - 1
    ELSE packet.data_len - 1

RECURSIVE SumBytes(_, _, _)
SumBytes(data, from, to) ==
    IF from > to THEN 0 ELSE data[from] + SumBytes(data, from + 1, to)

\* A checksum that is one byte of the payload, not a sum
calculate_checksum_one_byte(packet) == packet.data[1]

\* short_frame_t::calculate_checksum sums raw[1 .. length-2];
\* long_frame_t::calculate_checksum sums raw[0 .. length-2].
calculate_checksum(packet) ==
    IF packet.data_len = frame_data_length_short
    THEN SumBytes(packet.data, 1, packet.data_len - 2) % 256
    ELSE SumBytes(packet.data, 0, packet.data_len - 2) % 256

packet_is_checksum_valid(packet) ==
    IF packet.data_len # frame_data_length_short /\ packet.data_len # frame_data_length
    THEN FALSE
    ELSE packet.data[get_checksum_pos(packet)] = calculate_checksum(packet)

set_checksum(packet) ==
    [packet EXCEPT !.data[get_checksum_pos(packet)] = calculate_checksum(packet)]

\* esphome::hwp::inverse(buffer, length): complement of the first length bytes
\* A complement that stops after the short frame's bytes
inverse_short(packet) ==
    [packet EXCEPT !.data =
        [i \in DataIdx |->
            IF i < frame_data_length_short THEN inverse_byte(packet.data[i]) ELSE packet.data[i]]]

inverse(packet) ==
    [packet EXCEPT !.data =
        [i \in DataIdx |->
            IF i < packet.data_len THEN inverse_byte(packet.data[i]) ELSE packet.data[i]]]

is_size_valid(packet) ==
    packet.data_len = frame_data_length_short \/ packet.data_len = frame_data_length

\* BaseFrame::is_checksum_valid(bool& inverted): <<valid, inverted>>
is_checksum_valid_inv(packet) ==
    IF packet_is_checksum_valid(packet) THEN <<TRUE, FALSE>>
    ELSE IF packet_is_checksum_valid(inverse(packet)) THEN <<TRUE, TRUE>>
    ELSE <<FALSE, FALSE>>

is_checksum_valid(packet) == is_checksum_valid_inv(packet)[1]

(***************************************************************************)
(* Payload field codecs (Schema.h).  Temperatures and decimal numbers are   *)
(* integers counting half units: 20.5 degrees is 41.                        *)
(***************************************************************************)
Abs(x) == IF x < 0 THEN -x ELSE x

\* temperature_t: decimal:1, integer:5, offset:1, negative:1
temperature_decode(raw) ==
    LET decimal == raw % 2
        integer == (raw \div 2) % 32
        offset == (raw \div 64) % 2
        negative == (raw \div 128) % 2
        result == 2 * integer + decimal + 4 * offset
    IN  IF negative = 1 THEN -result ELSE result

temperature_encode(t) ==
    LET negative == IF t < 0 THEN 1 ELSE 0
        offset == IF Abs(t) >= 4 THEN 1 ELSE 0
        abs_temp == IF offset = 1 THEN Abs(t) - 4 ELSE Abs(t)
        decimal == Abs(t) % 2
        integer == (abs_temp \div 2) % 32
    IN  decimal + 2 * integer + 64 * offset + 128 * negative

\* temperature_extended_t: decimal:1, integer:7, value = integer - 30 (+0.5)
temperature_extended_decode(raw) == 2 * ((raw \div 2) - 30) + (raw % 2)

temperature_extended_encode(t) ==
    LET decimal == Abs(t) % 2
        integer == ((t + 60) \div 2) % 128
    IN  decimal + 2 * integer

\* decimal_number_t: decimal:1, integer:6, negative:1
decimal_number_decode(raw) ==
    LET decimal == raw % 2
        integer == (raw \div 2) % 64
        negative == (raw \div 128) % 2
    IN  (IF negative = 1 THEN -(2 * integer) ELSE 2 * integer) + decimal

decimal_number_encode(v) ==
    LET negative == IF v < 0 THEN 1 ELSE 0
        integer == (Abs(v) \div 2) % 64
        decimal == Abs(v) % 2
    IN  decimal + 2 * integer + 128 * negative

\* large_integer_t: a uint16_t stored byte-swapped; lo is the byte at the
\* lower address of the little-endian raw value.
large_integer_decode(lo, hi) == lo * 256 + hi

large_integer_encode(v) == <<(v \div 256) % 256, v % 256>>

\* FanMode(uint8_t): values above AMBIENT_SCHEDULED fall back to LOW_SPEED
FanMode_from_raw(v) == IF v <= 4 THEN v ELSE 0

(***************************************************************************)
(* Typed payloads: as_type copies packet bytes 1..10, from_type writes them *)
(* back, sets the length to 12 and recomputes the checksum.                 *)
(***************************************************************************)
TypeIdx == 1..(frame_data_length - 2)

as_type(packet) == [i \in TypeIdx |-> packet.data[i]]

\* A from_type that writes into a reset packet instead of the held one
from_type_reset(packet, data) ==
    set_checksum([data |-> [i \in DataIdx |-> IF i \in TypeIdx THEN data[i] ELSE 0],
                  data_len |-> 1 + (frame_data_length - 2) + 1])

from_type(packet, data) ==
    set_checksum([data |-> [i \in DataIdx |-> IF i \in TypeIdx THEN data[i] ELSE packet.data[i]],
                  data_len |-> 1 + (frame_data_length - 2) + 1])

\* operator== of conf_1_t leaves the id byte out; conf_2_t and conf_5_t
\* compare every byte.
data_equal(cls, a, b) ==
    IF cls = "FrameConf1" THEN \A i \in TypeIdx \ {1} : a[i] = b[i]
    ELSE a = b

(***************************************************************************)
(* Decoder (Decoder.cpp): the receive framer                                *)
(***************************************************************************)
Decoder_reset ==
    [started |-> FALSE, finalized |-> FALSE, bit_current_index |-> 0,
     current_byte_value |-> 0, source_ |-> SOURCE_UNKNOWN, packet |-> packet_reset]

start_new_frame == [Decoder_reset EXCEPT !.started = TRUE]

append_bit(d, long_duration) ==
    IF ~d.started THEN d
    ELSE LET byte == IF long_duration
                     THEN set_bit(d.current_byte_value, d.bit_current_index)
                     ELSE d.current_byte_value
             idx == d.bit_current_index + 1
         IN  IF idx = 8
             THEN [d EXCEPT
                     !.packet.data = IF d.packet.data_len < frame_data_length
                                     THEN [@ EXCEPT ![d.packet.data_len] = byte]
                                     ELSE @,
                     !.packet.data_len = @ + 1,
                     !.bit_current_index = 0,
                     !.current_byte_value = 0]
             ELSE [d EXCEPT !.bit_current_index = idx, !.current_byte_value = byte]

is_complete(d) == d.started /\ is_size_valid(d.packet) /\ is_checksum_valid(d.packet)

\* Pulse records (rmt_item32_t): <<level0, duration0>> then <<level1, duration1>>
Pulse(l0, d0, l1, d1) == [level0 |-> l0, duration0 |-> d0, level1 |-> l1, duration1 |-> d1]

NoPulse == Pulse(FALSE, 0, FALSE, 0)

get_high_duration(item) ==
    IF item.level0 THEN item.duration0 ELSE IF item.level1 THEN item.duration1 ELSE 0

get_low_duration(item) ==
    IF ~item.level0 THEN item.duration0 ELSE IF ~item.level1 THEN item.duration1 ELSE 0

\* Unsigned arithmetic: target_us - 600 wraps to a huge value when
\* target_us < 600, and then no actual_us reaches it.
matches_duration(target_us, actual_us) ==
    /\ target_us >= pulse_duration_threshold_us
    /\ actual_us >= target_us - pulse_duration_threshold_us
    /\ actual_us <= target_us + pulse_duration_threshold_us

is_start_frame(item) ==
    matches_duration(get_high_duration(item), frame_heading_high_duration_ms * 1000)

is_long_bit(item) ==
    /\ matches_duration(get_high_duration(item), bit_long_high_duration_ms * 1000)
    /\ matches_duration(get_low_duration(item), bit_low_duration_ms * 1000)

is_short_bit(item) ==
    /\ matches_duration(get_high_duration(item), bit_short_high_duration_ms * 1000)
    /\ matches_duration(get_low_duration(item), bit_low_duration_ms * 1000)

is_frame_end(item) ==
    \/ get_high_duration(item) = 0
    \/ get_low_duration(item) = 0
    \/ matches_duration(get_high_duration(item), frame_end_threshold_ms * 1000)

(***************************************************************************)
(* Transmit waveform (Bus::process_send_queue, Bus::sendHeader): the line   *)
(* is driven low then high; an edge-timing receiver sees one record per     *)
(* low/high pair.                                                           *)
(***************************************************************************)
LowHigh(low_ms, high_ms) == Pulse(FALSE, low_ms * 1000, TRUE, high_ms * 1000)

sendHeader == LowHigh(frame_heading_low_duration_ms, frame_heading_high_duration_ms)

\* Records of one copy: the header, then eight records per byte
CopyLen(packet) == 1 + 8 * packet.data_len

\* Every copy is followed by one more record: the spacing between copies,
\* or the group spacing after the last copy.
TxWaveLen(packet, transmitCount) == transmitCount * (CopyLen(packet) + 1)

\* The burst with the bits of every byte taken from the top
TxRecord_msb(packet, transmitCount, k) ==
    LET copy == (k - 1) \div (CopyLen(packet) + 1)
        offset == (k - 1) % (CopyLen(packet) + 1)
        transmitIndex == (offset - 1) \div 8
        bitIndex == 7 - ((offset - 1) % 8)
    IN  IF offset = 0 THEN sendHeader
        ELSE IF offset < CopyLen(packet)
             THEN IF get_bit(packet.data[transmitIndex], bitIndex)
                  THEN LowHigh(bit_low_duration_ms, bit_long_high_duration_ms)
                  ELSE LowHigh(bit_low_duration_ms, bit_low_duration_ms)
        ELSE IF copy < transmitCount - 1
             THEN LowHigh(bit_low_duration_ms, controler_frame_spacing_duration_ms)
             ELSE LowHigh(bit_low_duration_ms, controler_group_spacing_ms)

\* The k-th record (from 1) of the burst process_send_queue drives
TxRecord(packet, transmitCount, k) ==
    LET copy == (k - 1) \div (CopyLen(packet) + 1)
        offset == (k - 1) % (CopyLen(packet) + 1)
        transmitIndex == (offset - 1) \div 8
        bitIndex == (offset - 1) % 8
    IN  IF offset = 0 THEN sendHeader
        ELSE IF offset < CopyLen(packet)
             THEN IF get_bit(packet.data[transmitIndex], bitIndex)
                  THEN LowHigh(bit_low_duration_ms, bit_long_high_duration_ms)
                  ELSE LowHigh(bit_low_duration_ms, bit_low_duration_ms)
        ELSE IF copy < transmitCount - 1
             THEN LowHigh(bit_low_duration_ms, controler_frame_spacing_duration_ms)
             ELSE LowHigh(bit_low_duration_ms, controler_group_spacing_ms)

TxWave(packet, transmitCount) ==
    [k \in 1..TxWaveLen(packet, transmitCount) |-> TxRecord(packet, transmitCount, k)]

\* Milliseconds _sendLow/_sendHigh spend on one byte
ByteDurationMs(byte) ==
    8 * bit_low_duration_ms
    + Cardinality({b \in 0..7 : get_bit(byte, b)}) * bit_long_high_duration_ms
    + Cardinality({b \in 0..7 : ~get_bit(byte, b)}) * bit_low_duration_ms

RECURSIVE BytesDurationMs(_, _)
BytesDurationMs(packet, n) ==
    IF n = 0 THEN 0
    ELSE ByteDurationMs(packet.data[n - 1]) + BytesDurationMs(packet, n - 1)

\* Milliseconds the bus spends in BUSMODE_TX for one burst of packet
BurstDuration(packet, transmitCount) ==
    transmitCount * (frame_heading_total_duration_ms
                     + BytesDurationMs(packet, packet.data_len))
    + (transmitCount - 1) * (bit_low_duration_ms + controler_frame_spacing_duration_ms)
    + bit_low_duration_ms + controler_group_spacing_ms

(***************************************************************************)
(* heat_pump_data_t (Schema.h): the canonical state, every field optional   *)
(***************************************************************************)
CLIMATE_MODE_OFF == "CLIMATE_MODE_OFF"
CLIMATE_MODE_HEAT == "CLIMATE_MODE_HEAT"
CLIMATE_MODE_COOL == "CLIMATE_MODE_COOL"
CLIMATE_MODE_AUTO == "CLIMATE_MODE_AUTO"
CLIMATE_MODE_FAN_ONLY == "CLIMATE_MODE_FAN_ONLY"

CLIMATE_ACTION_OFF == "CLIMATE_ACTION_OFF"

STATE_OFF == "STATE_OFF"
STATE_COOLING_MODE == "STATE_COOLING_MODE"
STATE_HEATING_MODE == "STATE_HEATING_MODE"
STATE_AUTO_MODE == "STATE_AUTO_MODE"

hp_data_fields ==
    {"mode", "target_temperature", "mode_restrictions",
     "r01_setpoint_cooling", "r02_setpoint_heating", "r03_setpoint_auto",
     "r04_return_diff_cooling", "r05_shutdown_temp_diff_when_cooling",
     "r06_return_diff_heating", "r07_shutdown_diff_heating",
     "d01_defrost_start", "d02_defrost_end", "d03_defrosting_cycle_time_minutes",
     "d04_max_defrost_time_minutes", "fan_mode",
     "r08_min_cool_setpoint", "r09_max_cooling_setpoint",
     "r10_min_heating_setpoint", "r11_max_heating_setpoint",
     "min_target_temperature", "max_target_temperature",
     "d06_defrost_eco_mode", "U01_flow_meter",
     "d05_min_economy_defrost_time_minutes", "U02_pulses_per_liter",
     "last_heater_frame", "last_controller_frame", "action"}

heat_pump_data_init == [f \in hp_data_fields |-> nullopt]

DefaultMinTarget == 15
DefaultMaxTarget == 33

\* degrees to half-degree units
get_min_target(hp) == value_or(hp.min_target_temperature, 2 * DefaultMinTarget)
get_max_target(hp) == value_or(hp.max_target_temperature, 2 * DefaultMaxTarget)

is_temperature_valid(hp, temp) == temp >= get_min_target(hp) /\ temp <= get_max_target(hp)

(***************************************************************************)
(* hp_mode_t (FrameConf1.h): power b0, h02_enable_auto b2,                  *)
(* h02_heating_only b3, heat b4, auto_mode b5                               *)
(***************************************************************************)
get_mode_restriction(m) ==
    IF get_bit(m, 3) THEN "Heating"
    ELSE IF get_bit(m, 2) THEN "Any" ELSE "Cooling"

set_mode_restriction(m, restrict) ==
    put_bit(put_bit(m, 3, restrict = "Heating"), 2, restrict = "Any")

get_active_mode(m) ==
    IF ~get_bit(m, 0) THEN STATE_OFF
    ELSE IF get_bit(m, 5) THEN STATE_AUTO_MODE
    ELSE IF get_bit(m, 4) THEN STATE_HEATING_MODE
    ELSE STATE_COOLING_MODE

get_climate_mode(m) ==
    CASE get_active_mode(m) = STATE_AUTO_MODE -> CLIMATE_MODE_AUTO
      [] get_active_mode(m) = STATE_COOLING_MODE -> CLIMATE_MODE_COOL
      [] get_active_mode(m) = STATE_HEATING_MODE -> CLIMATE_MODE_HEAT
      [] OTHER -> CLIMATE_MODE_OFF

\* FrameConf1::set_mode on the mode byte
set_mode(m, climate_mode) ==
    LET cleared == clear_bit(clear_bit(clear_bit(m, 0), 4), 5)
    IN  CASE climate_mode = CLIMATE_MODE_AUTO -> set_bit(set_bit(cleared, 5), 0)
          [] climate_mode = CLIMATE_MODE_HEAT -> set_bit(set_bit(cleared, 4), 0)
          [] climate_mode = CLIMATE_MODE_COOL -> set_bit(cleared, 0)
          [] OTHER -> cleared

\* FrameConf1::get_target_temperature on a typed payload
get_target_temperature(data) ==
    CASE get_active_mode(data[2]) = STATE_AUTO_MODE -> temperature_decode(data[5])
      [] get_active_mode(data[2]) = STATE_COOLING_MODE -> temperature_decode(data[3])
      [] OTHER -> temperature_decode(data[4])

(***************************************************************************)
(* parse of each frame class into the canonical state                       *)
(***************************************************************************)
\* A parse that takes the frame of either sender
FrameConf1_parse_any_source(inst, hp) ==
    LET d == value(inst.data_)
    IN  [hp EXCEPT
           !.mode = {get_climate_mode(d[2])},
           !.target_temperature = {get_target_temperature(d)},
           !.mode_restrictions = {get_mode_restriction(d[2])},
           !.r01_setpoint_cooling = {temperature_decode(d[3])},
           !.r02_setpoint_heating = {temperature_decode(d[4])},
           !.r03_setpoint_auto = {temperature_decode(d[5])},
           !.r04_return_diff_cooling = {temperature_extended_decode(d[6])},
           !.r05_shutdown_temp_diff_when_cooling = {temperature_extended_decode(d[7])},
           !.r06_return_diff_heating = {temperature_extended_decode(d[8])},
           !.r07_shutdown_diff_heating = {temperature_extended_decode(d[9])}]

FrameConf1_parse(inst, hp) ==
    IF inst.source_ # SOURCE_HEATER THEN hp
    ELSE LET d == value(inst.data_)
         IN  [hp EXCEPT
                !.mode = {get_climate_mode(d[2])},
                !.target_temperature = {get_target_temperature(d)},
                !.mode_restrictions = {get_mode_restriction(d[2])},
                !.r01_setpoint_cooling = {temperature_decode(d[3])},
                !.r02_setpoint_heating = {temperature_decode(d[4])},
                !.r03_setpoint_auto = {temperature_decode(d[5])},
                !.r04_return_diff_cooling = {temperature_extended_decode(d[6])},
                !.r05_shutdown_temp_diff_when_cooling = {temperature_extended_decode(d[7])},
                !.r06_return_diff_heating = {temperature_extended_decode(d[8])},
                !.r07_shutdown_diff_heating = {temperature_extended_decode(d[9])}]

FrameConf2_parse(inst, hp) ==
    LET d == value(inst.data_)
    IN  [hp EXCEPT
           !.d01_defrost_start = {temperature_extended_decode(d[3])},
           !.d03_defrosting_cycle_time_minutes = {decimal_number_decode(d[5])},
           !.d04_max_defrost_time_minutes = {decimal_number_decode(d[6])},
           !.d02_defrost_end = {temperature_decode(d[4])},
           !.fan_mode = {FanMode_from_raw(d[2] \div 16)}]

FrameConf3_parse(inst, hp) ==
    LET d == value(inst.data_)
    IN  [hp EXCEPT
           !.r08_min_cool_setpoint = {temperature_extended_decode(d[7])},
           !.r09_max_cooling_setpoint = {temperature_extended_decode(d[8])},
           !.r10_min_heating_setpoint = {temperature_extended_decode(d[9])},
           !.r11_max_heating_setpoint = {temperature_extended_decode(d[10])},
           !.min_target_temperature = {temperature_extended_decode(d[9])},
           !.max_target_temperature = {temperature_extended_decode(d[10])}]

FrameConf5_parse(inst, hp) ==
    LET d == value(inst.data_)
    IN  [hp EXCEPT
           !.d06_defrost_eco_mode = {get_bit(d[2], 6)},
           !.U01_flow_meter = {get_bit(d[2], 2)},
           !.d05_min_economy_defrost_time_minutes = {decimal_number_decode(d[3])},
           !.U02_pulses_per_liter = {large_integer_decode(d[9], d[10])}]

parse(inst, hp) ==
    CASE inst.cls = "FrameConf1" -> FrameConf1_parse(inst, hp)
      [] inst.cls = "FrameConf2" -> FrameConf2_parse(inst, hp)
      [] inst.cls = "FrameConf3" -> FrameConf3_parse(inst, hp)
      [] inst.cls = "FrameConf5" -> FrameConf5_parse(inst, hp)
      [] OTHER -> hp

(***************************************************************************)
(* Frame registry (base_frame.cpp, CLASS_DEFAULT_IMPL in base_frame.h).     *)
(* The configuration frame classes are registered by static initializers;  *)
(* a frame of any other type byte registers a BaseFrame entry on first use. *)
(***************************************************************************)
FrameClassId ==
    [FrameConf1 |-> FRAME_ID_CONF_1, FrameConf2 |-> FRAME_ID_CONF_2,
     FrameConf3 |-> FRAME_ID_CONF_3,
     FrameConf5 |-> FRAME_ID_CONF_5, FrameConf6 |-> FRAME_ID_CONF_6]

FrameClasses == DOMAIN FrameClassId

\* factory(): a fresh instance holds no payload
base_create(cls, signature) ==
    [cls |-> cls, byte_signature_ |-> signature, data_ |-> nullopt, prev_data_ |-> nullopt,
     packet |-> packet_reset, prev_ |-> nullopt, source_ |-> SOURCE_UNKNOWN,
     finalized |-> FALSE]

\* A registration that puts the new entry in front of the others
register_frame_class_front(reg, cls, signature) == <<base_create(cls, signature)>> \o reg

register_frame_class(reg, cls, signature) == Append(reg, base_create(cls, signature))

\* A matcher in which a pass-through entry never recognizes its type byte
matches_static(inst, packet) ==
    IF inst.cls = "BaseFrame"
    THEN FALSE
    ELSE FrameClassId[inst.cls] = get_type(packet)

matches(inst, packet) ==
    IF inst.cls = "BaseFrame"
    THEN value(inst.byte_signature_) = get_type(packet)
    ELSE FrameClassId[inst.cls] = get_type(packet)

\* The classes CLASS_ID_DECLARATION registers at static initialisation
StaticClasses ==
    {"FrameClock", "FrameConditions1", "FrameConditions1B", "FrameConditions2",
     "FrameConditions2B", "FrameConf1", "FrameConf2", "FrameConf3", "FrameConf4",
     "FrameConf5", "FrameConf6"}

\* The matchers with FrameConditions1B testing the type byte alone
static_matches_type_only(cls, packet) ==
    CASE cls = "FrameClock" -> get_type(packet) = FRAME_ID_CLOCK
      [] cls = "FrameConditions1" ->
            get_type(packet) = FRAME_ID_CONDITIONS_1 /\ as_type(packet)[2] = 5
      [] cls = "FrameConditions1B" -> get_type(packet) = FRAME_ID_CONDITIONS_1
      [] cls = "FrameConditions2" ->
            get_type(packet) = FRAME_ID_CONDITIONS2 /\ packet.data_len = frame_data_length
      [] cls = "FrameConditions2B" ->
            /\ get_type(packet) = FRAME_ID_CONDITIONS2
            /\ packet.data_len = frame_data_length_short
      [] cls = "FrameConf4" -> get_type(packet) = FRAME_ID_CONF_4
      [] OTHER -> FrameClassId[cls] = get_type(packet)

\* <Class>::matches(specialized, base) of each registered class; reserved_1
\* is the second byte of the payload structure
static_matches(cls, packet) ==
    CASE cls = "FrameClock" -> get_type(packet) = FRAME_ID_CLOCK
      [] cls = "FrameConditions1" ->
            get_type(packet) = FRAME_ID_CONDITIONS_1 /\ as_type(packet)[2] = 5
      [] cls = "FrameConditions1B" ->
            get_type(packet) = FRAME_ID_CONDITIONS_1 /\ as_type(packet)[2] # 5
      [] cls = "FrameConditions2" ->
            get_type(packet) = FRAME_ID_CONDITIONS2 /\ packet.data_len = frame_data_length
      [] cls = "FrameConditions2B" ->
            /\ get_type(packet) = FRAME_ID_CONDITIONS2
            /\ packet.data_len = frame_data_length_short
      [] cls = "FrameConf4" -> get_type(packet) = FRAME_ID_CONF_4
      [] OTHER -> FrameClassId[cls] = get_type(packet)

\* The loop of get_specialized over the static entries in the order given:
\* the class of the first entry that matches, BaseFrame when none does
first_static_match(order, packet) ==
    IF \E i \in 1..Len(order) : static_matches(order[i], packet)
    THEN order[CHOOSE i \in 1..Len(order) :
                  /\ static_matches(order[i], packet)
                  /\ \A j \in 1..(i - 1) : ~static_matches(order[j], packet)]
    ELSE "BaseFrame"

\* <<registry, index of the specialized instance>>
get_specialized(reg, packet) ==
    IF \E i \in 1..Len(reg) : matches(reg[i], packet)
    THEN <<reg, CHOOSE i \in 1..Len(reg) :
                   /\ matches(reg[i], packet)
                   /\ \A j \in 1..(i - 1) : ~matches(reg[j], packet)>>
    ELSE <<register_frame_class(reg, "BaseFrame", {get_type(packet)}), Len(reg) + 1>>

stage(inst, base) ==
    LET staged == [inst EXCEPT !.packet = base.packet, !.source_ = base.source_,
                               !.finalized = base.finalized]
    IN  IF inst.cls = "BaseFrame" THEN staged
        ELSE [staged EXCEPT !.data_ = {as_type(base.packet)}]

\* A transfer that leaves the previous payload in place
transfer_keep(inst) == inst

transfer(inst) ==
    IF inst.cls = "BaseFrame" THEN inst ELSE [inst EXCEPT !.prev_data_ = inst.data_]

\* An is_changed whose comparison is turned around
is_changed_equal(inst) ==
    \/ ~has_value(inst.prev_data_)
    \/ ~has_value(inst.data_)
    \/ data_equal(inst.cls, value(inst.data_), value(inst.prev_data_))

is_changed(inst) ==
    \/ ~has_value(inst.prev_data_)
    \/ ~has_value(inst.data_)
    \/ ~data_equal(inst.cls, value(inst.data_), value(inst.prev_data_))

\* BaseFrame::process: <<registry, hp_data>> after dispatching decoder d.
\* The instance is staged, parsed, transferred, and remembers the packet.
process_stamp(hp, source, now) ==
    IF source = SOURCE_HEATER THEN [hp EXCEPT !.last_heater_frame = {now}]
    ELSE IF source = SOURCE_CONTROLLER THEN [hp EXCEPT !.last_controller_frame = {now}]
    ELSE hp

process_staged(reg, idx, staged, hp, prev_save, now) ==
    <<[reg EXCEPT ![idx] = [transfer(staged) EXCEPT !.prev_ = {prev_save}]],
      process_stamp(parse(staged, hp), staged.source_, now)>>

process_specialized(d, found, hp, now) ==
    process_staged(found[1], found[2], stage(found[1][found[2]], d), hp, d.packet, now)

process(d, reg, hp, now) ==
    process_specialized(d, get_specialized(reg, d.packet), hp, now)

\* Decoder::finalize: the decoder afterwards, whether a frame came out, and
\* the registry and canonical state after its dispatch
finalize_result(d, out) ==
    [current_frame |-> d,
     frame |-> {[packet |-> d.packet, source_ |-> d.source_]},
     registry |-> out[1], hp_data |-> out[2]]

finalize_valid(d, inverted, reg, hp, now) ==
    IF inverted
    THEN finalize_result(
             [d EXCEPT !.packet = inverse(d.packet), !.source_ = SOURCE_HEATER,
                       !.finalized = TRUE],
             process([d EXCEPT !.packet = inverse(d.packet), !.source_ = SOURCE_HEATER,
                               !.finalized = TRUE], reg, hp, now))
    ELSE finalize_result(
             [d EXCEPT !.source_ = SOURCE_CONTROLLER, !.finalized = TRUE],
             process([d EXCEPT !.source_ = SOURCE_CONTROLLER, !.finalized = TRUE],
                     reg, hp, now))

finalize_checked(d, chk, reg, hp, now) ==
    IF ~d.started \/ ~is_size_valid(d.packet) \/ ~chk[1]
    THEN [current_frame |-> d, frame |-> nullopt, registry |-> reg, hp_data |-> hp]
    ELSE finalize_valid(d, chk[2], reg, hp, now)

Decoder_finalize(d, reg, hp, now) ==
    finalize_checked([d EXCEPT !.source_ = SOURCE_UNKNOWN, !.finalized = FALSE],
                     is_checksum_valid_inv(d.packet), reg, hp, now)

(***************************************************************************)
(* Receive path of the bus (Bus.cpp).  s is the part of the program state   *)
(* the receive path touches, now the value of millis().                     *)
(***************************************************************************)
finalize_frame_result(s, f, timeout, now) ==
    IF has_value(f.frame)
    THEN [s EXCEPT
            !.current_frame = Decoder_reset,
            !.registry = f.registry,
            !.hp_data = f.hp_data,
            !.finalized_frame = f.frame,
            !.controler_packets_received_ =
                IF value(f.frame).source_ = SOURCE_CONTROLLER THEN TRUE ELSE @,
            !.previous_controller_packet_time_ =
                IF value(f.frame).source_ = SOURCE_CONTROLLER THEN {now} ELSE @]
    ELSE IF timeout
         THEN [s EXCEPT !.current_frame = Decoder_reset]
         ELSE [s EXCEPT !.current_frame = f.current_frame]

finalize_frame(s, timeout, now) ==
    finalize_frame_result(s, Decoder_finalize(s.current_frame, s.registry, s.hp_data, now),
                          timeout, now)

\* process_pulse with the reset on an invalid pulse made to depend on the
\* accumulated size
process_pulse_size_gated(s, item, now) ==
    IF is_start_frame(item)
    THEN [(IF is_complete(s.current_frame) THEN finalize_frame(s, FALSE, now) ELSE s)
            EXCEPT !.current_frame = start_new_frame]
    ELSE IF ~s.current_frame.started THEN s
    ELSE IF is_long_bit(item) \/ is_short_bit(item)
         THEN [s EXCEPT !.current_frame = append_bit(@, is_long_bit(item))]
    ELSE IF is_frame_end(item)
         THEN IF is_complete(s.current_frame) THEN finalize_frame(s, TRUE, now) ELSE s
    ELSE IF is_complete(s.current_frame) THEN finalize_frame(s, TRUE, now)
         ELSE IF is_size_valid(s.current_frame.packet)
              THEN [s EXCEPT !.current_frame = Decoder_reset]
              ELSE s

process_pulse(s, item, now) ==
    IF is_start_frame(item)
    THEN [(IF is_complete(s.current_frame) THEN finalize_frame(s, FALSE, now) ELSE s)
            EXCEPT !.current_frame = start_new_frame]
    ELSE IF ~s.current_frame.started THEN s
    ELSE IF is_long_bit(item) \/ is_short_bit(item)
         THEN [s EXCEPT !.current_frame = append_bit(@, is_long_bit(item))]
    ELSE IF is_frame_end(item)
         THEN IF is_complete(s.current_frame) THEN finalize_frame(s, TRUE, now) ELSE s
    ELSE IF is_complete(s.current_frame) THEN finalize_frame(s, TRUE, now)
         ELSE [s EXCEPT !.current_frame = Decoder_reset]

\* Bus::RxTask, one record popped from the ring buffer while in BUSMODE_RX:
\* process_pulse, then finalize as soon as the frame is complete
RxTask_item_done(s, now) ==
    IF is_complete(s.current_frame) THEN finalize_frame(s, FALSE, now) ELSE s

RxTask_item(s, item, now) == RxTask_item_done(process_pulse(s, item, now), now)

\* Bus::RxTask, pop timeout with a half-built record older than 50 ms
RxTask_timeout_done(s, now) ==
    IF is_complete(s.current_frame) THEN finalize_frame(s, TRUE, now)
    ELSE [s EXCEPT !.current_frame = Decoder_reset]

RxTask_timeout(s, pulse, now) == RxTask_timeout_done(process_pulse(s, pulse, now), now)

(***************************************************************************)
(* HWPCall (hwp_call.h) and the control functions of the frame classes.     *)
(* A call is a record of optionals; temperatures and decimal numbers in     *)
(* half units, pulses per liter in units.                                   *)
(***************************************************************************)
call_fields ==
    {"mode", "target_temperature", "custom_fan_mode", "fan_mode",
     "d01_defrost_start", "d02_defrost_end", "d03_defrosting_cycle_time_minutes",
     "d04_max_defrost_time_minutes", "d05_min_economy_defrost_time_minutes",
     "r04_return_diff_cooling", "r05_shutdown_temp_diff_when_cooling",
     "r06_return_diff_heating", "r07_shutdown_diff_heating",
     "u02_pulses_per_liter", "d06_defrost_eco_mode", "u01_flow_meter",
     "h02_mode_restrictions"}

\* FanMode values: LOW_SPEED 0, HIGH_SPEED 1, AMBIENT 2, SCHEDULED 3,
\* AMBIENT_SCHEDULED 4
FanMode_from_custom_fan_mode(fan_mode) ==
    CASE fan_mode = "ambient_desc" -> {2}
      [] fan_mode = "scheduled_desc" -> {3}
      [] fan_mode = "ambient_scheduled_desc" -> {4}
      [] OTHER -> nullopt

FanMode_from_climate_fan_mode(fan_mode) ==
    CASE fan_mode = "CLIMATE_FAN_LOW" -> {0}
      [] fan_mode = "CLIMATE_FAN_HIGH" -> {1}
      [] OTHER -> nullopt

FanMode_from_call(call) ==
    IF has_value(call.custom_fan_mode)
       /\ has_value(FanMode_from_custom_fan_mode(value(call.custom_fan_mode)))
    THEN FanMode_from_custom_fan_mode(value(call.custom_fan_mode))
    ELSE IF has_value(call.fan_mode)
    THEN FanMode_from_climate_fan_mode(value(call.fan_mode))
    ELSE nullopt

\* FrameConf2::set_fan_mode on the fan byte: mode is the high nibble
set_fan_mode(byte, fan) == 16 * fan + (byte % 16)

\* The copy constructor of a frame class
copy_frame(inst) == [inst EXCEPT !.prev_data_ = inst.data_]

\* finalize() of a frame class: the payload goes back into the packet
finalize(inst) == [inst EXCEPT !.packet = from_type(inst.packet, value(inst.data_))]

\* control_return without the test that refuses a class with no payload yet
control_return_unchecked(command_frame, has_data) ==
    IF ~is_changed(command_frame) /\ has_data THEN nullopt
    ELSE {IF has_data THEN finalize(command_frame) ELSE command_frame}

\* The common tail of the control functions
control_return(command_frame, has_data) ==
    IF ~is_changed(command_frame) /\ has_data THEN nullopt
    ELSE IF ~has_data THEN nullopt
    ELSE {finalize(command_frame)}

\* The copy of inst whose payload is command_data; without a payload the
\* writes land in a disengaged optional of the local copy and are dropped.
command_frame_of(inst, command_data) ==
    IF has_value(inst.data_)
    THEN [copy_frame(inst) EXCEPT !.data_ = command_data]
    ELSE copy_frame(inst)

\* FrameConf1::control, the writes into call.hp_data
FrameConf1_hp_mode(hp, call) ==
    IF has_value(call.mode) THEN [hp EXCEPT !.mode = call.mode] ELSE hp

FrameConf1_hp_target(hp, call) ==
    IF has_value(call.target_temperature)
       /\ is_temperature_valid(hp, value(call.target_temperature))
    THEN [hp EXCEPT !.target_temperature = call.target_temperature]
    ELSE hp

FrameConf1_hp(hp, call) == FrameConf1_hp_target(FrameConf1_hp_mode(hp, call), call)

\* What *call.hp_data.target_temperature may read from a disengaged optional
UninitTargets == {0, 56}

\* *call.hp_data.target_temperature after the writes above: the values the
\* read can yield
deref_target(hp, call) ==
    IF has_value(FrameConf1_hp(hp, call).target_temperature)
    THEN FrameConf1_hp(hp, call).target_temperature
    ELSE UninitTargets

\* FrameConf1::control, the writes into the payload of command_frame
FrameConf1_command_mode(d, call) ==
    IF has_value(call.mode) THEN [d EXCEPT ![2] = set_mode(@, value(call.mode))] ELSE d

FrameConf1_command_restrictions(d, call) ==
    IF has_value(call.h02_mode_restrictions)
    THEN [d EXCEPT ![2] = set_mode_restriction(@, value(call.h02_mode_restrictions))]
    ELSE d

\* The setpoint byte the switch on get_active_mode() writes
target_setpoint_index(m) ==
    CASE get_active_mode(m) = STATE_COOLING_MODE -> 3
      [] get_active_mode(m) = STATE_HEATING_MODE -> 4
      [] get_active_mode(m) = STATE_AUTO_MODE -> 5
      [] OTHER -> IF get_mode_restriction(m) = "Cooling" THEN 3 ELSE 4

FrameConf1_command_target(d, call, target) ==
    IF has_value(call.target_temperature)
    THEN [d EXCEPT ![target_setpoint_index(d[2])] = temperature_encode(target)]
    ELSE d

FrameConf1_command_diffs(d, call) ==
    [i \in TypeIdx |->
        IF i = 6 /\ has_value(call.r04_return_diff_cooling)
        THEN temperature_extended_encode(value(call.r04_return_diff_cooling))
        ELSE IF i = 7 /\ has_value(call.r05_shutdown_temp_diff_when_cooling)
        THEN temperature_extended_encode(value(call.r05_shutdown_temp_diff_when_cooling))
        ELSE IF i = 8 /\ has_value(call.r06_return_diff_heating)
        THEN temperature_extended_encode(value(call.r06_return_diff_heating))
        ELSE IF i = 9 /\ has_value(call.r07_shutdown_diff_heating)
        THEN temperature_extended_encode(value(call.r07_shutdown_diff_heating))
        ELSE d[i]]

FrameConf1_command(d, call, target) ==
    FrameConf1_command_diffs(
        FrameConf1_command_target(
            FrameConf1_command_restrictions(FrameConf1_command_mode(d, call), call),
            call, target),
        call)

\* <<returned frame, call.hp_data afterwards>>
FrameConf1_control(inst, call, hp, target) ==
    <<control_return(
          command_frame_of(inst, {FrameConf1_command(value(inst.data_), call, target)}),
          has_value(inst.data_)),
      FrameConf1_hp(hp, call)>>

FrameConf2_command(d, call) ==
    [i \in TypeIdx |->
        IF i = 3 /\ has_value(call.d01_defrost_start)
        THEN temperature_extended_encode(value(call.d01_defrost_start))
        ELSE IF i = 4 /\ has_value(call.d02_defrost_end)
        THEN temperature_encode(value(call.d02_defrost_end))
        ELSE IF i = 5 /\ has_value(call.d03_defrosting_cycle_time_minutes)
        THEN decimal_number_encode(value(call.d03_defrosting_cycle_time_minutes))
        ELSE IF i = 6 /\ has_value(call.d04_max_defrost_time_minutes)
        THEN decimal_number_encode(value(call.d04_max_defrost_time_minutes))
        ELSE IF i = 2 /\ has_value(FanMode_from_call(call))
        THEN set_fan_mode(d[2], value(FanMode_from_call(call)))
        ELSE d[i]]

FrameConf2_control(inst, call) ==
    control_return(
        command_frame_of(inst, {FrameConf2_command(value(inst.data_), call)}),
        has_value(inst.data_))

\* flags_a: U01_flow_meter is bit 2, d06_defrost_eco_mode bit 6
FrameConf5_command_flags(byte, call) ==
    put_bit(put_bit(byte, 6,
                    IF has_value(call.d06_defrost_eco_mode)
                    THEN value(call.d06_defrost_eco_mode) ELSE get_bit(byte, 6)),
            2,
            IF has_value(call.u01_flow_meter)
            THEN value(call.u01_flow_meter) ELSE get_bit(byte, 2))

FrameConf5_command(d, call) ==
    [i \in TypeIdx |->
        IF i = 2 THEN FrameConf5_command_flags(d[2], call)
        ELSE IF i = 3 /\ has_value(call.d05_min_economy_defrost_time_minutes)
        THEN decimal_number_encode(value(call.d05_min_economy_defrost_time_minutes))
        ELSE IF i = 9 /\ has_value(call.u02_pulses_per_liter)
        THEN large_integer_encode(value(call.u02_pulses_per_liter))[1]
        ELSE IF i = 10 /\ has_value(call.u02_pulses_per_liter)
        THEN large_integer_encode(value(call.u02_pulses_per_liter))[2]
        ELSE d[i]]

FrameConf5_control(inst, call) ==
    control_return(
        command_frame_of(inst, {FrameConf5_command(value(inst.data_), call)}),
        has_value(inst.data_))

\* instance->control(call): <<returned frame, call.hp_data afterwards>>;
\* target is what FrameConf1 reads from *call.hp_data.target_temperature
control(inst, call, hp, target) ==
    CASE inst.cls = "FrameConf1" -> FrameConf1_control(inst, call, hp, target)
      [] inst.cls = "FrameConf2" -> <<FrameConf2_control(inst, call), hp>>
      [] inst.cls = "FrameConf5" -> <<FrameConf5_control(inst, call), hp>>
      [] OTHER -> <<nullopt, hp>>

\* Bus::control: every registry entry in order; acc is <<result, hp_data>>
Bus_control_push(acc, out) ==
    <<IF has_value(out[1]) THEN Append(acc[1], value(out[1])) ELSE acc[1], out[2]>>

RECURSIVE Bus_control_loop(_, _, _, _, _)
Bus_control_loop(reg, call, target, i, acc) ==
    IF i > Len(reg) THEN acc
    ELSE Bus_control_loop(reg, call, target, i + 1,
                          Bus_control_push(acc, control(reg[i], call, acc[2], target)))

Bus_control(reg, call, hp, target) == Bus_control_loop(reg, call, target, 1, <<<<>>, hp>>)

(***************************************************************************)
(* SpinLockQueue (SpinLockQueue.h)                                          *)
(***************************************************************************)
enqueue(queue, element) ==
    Append(IF Len(queue) > maxWriteLength
           THEN SubSeq(queue, Len(queue) - maxWriteLength + 1, Len(queue))
           ELSE queue,
           element)

has_next(queue) == queue # <<>>

\* A try_dequeue that takes the head and leaves it in the queue
try_dequeue_keep(queue, available) ==
    IF available /\ queue # <<>>
    THEN [ok |-> TRUE, element |-> {Head(queue)}, queue |-> queue, data_available |-> TRUE]
    ELSE [ok |-> FALSE, element |-> nullopt, queue |-> queue, data_available |-> FALSE]

\* SpinLockQueue::try_dequeue with no wait: the semaphore is taken, the head
\* popped, and the semaphore given again while frames remain
\* try_dequeue that never gives the semaphore back
more_available_never(queue) == FALSE

\* try_dequeue, after the unlock: queue.size() > 0, the test that gives the
\* semaphore back
more_available(queue) == Len(queue) > 0

\* try_dequeue taking the newest element instead of the oldest
try_dequeue_back(queue, available) ==
    IF available /\ queue # <<>>
    THEN [ok |-> TRUE, element |-> {queue[Len(queue)]},
          queue |-> SubSeq(queue, 1, Len(queue) - 1), data_available |-> Len(queue) > 1]
    ELSE [ok |-> FALSE, element |-> nullopt, queue |-> queue, data_available |-> FALSE]

try_dequeue(queue, available) ==
    IF available /\ queue # <<>>
    THEN [ok |-> TRUE, element |-> {Head(queue)}, queue |-> Tail(queue),
          data_available |-> Len(queue) > 1]
    ELSE [ok |-> FALSE, element |-> nullopt, queue |-> queue, data_available |-> FALSE]

\* Bus::queue_frame_data for each returned frame, in order
RECURSIVE queue_frames(_, _, _)
queue_frames(queue, frames, i) ==
    IF i > Len(frames) THEN queue
    ELSE queue_frames(enqueue(queue, frames[i]), frames, i + 1)

\* What Bus::queue_frame_data returns for a frame queued on this queue
queue_frame_data(queue, frame) == TRUE

STATUS_NONE == "STATUS_NONE"
STATUS_WARNING == "STATUS_WARNING"
STATUS_ERROR == "STATUS_ERROR"

\* The momentary status PoolHeater::control raises for the frames
\* Bus::control returned
control_status(passive, queue, frames) ==
    IF passive THEN STATUS_WARNING
    ELSE IF \E i \in 1..Len(frames) :
               ~queue_frame_data(queue_frames(queue, SubSeq(frames, 1, i - 1), 1), frames[i])
         THEN STATUS_ERROR
         ELSE STATUS_NONE

(***************************************************************************)
(* Transmit scheduling (Bus.h, Bus::has_time_to_send).  Clock values are    *)
(* uint32_t in the two's-complement view.                                   *)
(***************************************************************************)
\* a < b on uint32_t
U32Less(a, b) == IF (a < 0) = (b < 0) THEN a < b ELSE b < 0

is_time_for_next(prev_sent, now) ==
    \/ ~has_value(prev_sent)
    \/ ~U32Less(now, value(prev_sent) + delay_between_sending_messages_ms)

\* The comparison is made in double: the sum does not wrap, and millis()
\* converts as the unsigned value it is.
is_controller_timeout(prev_controller, now) ==
    /\ has_value(prev_controller)
    /\ IF (value(prev_controller) < 0) = (now < 0)
       THEN value(prev_controller) + (delay_between_controller_messages_ms * 3) \div 2 < now
       ELSE now < 0

has_controller(received) == received

next_controller_packet(prev_controller, now) ==
    IF has_value(prev_controller)
    THEN {value(prev_controller) + delay_between_controller_messages_ms}
    ELSE IF U32Less(now, delay_between_controller_messages_ms)
    THEN {delay_between_controller_messages_ms}
    ELSE nullopt

has_time_to_send(received, prev_controller, transmit_count, now) ==
    IF has_controller(received) /\ is_controller_timeout(prev_controller, now) THEN TRUE
    ELSE IF has_value(next_controller_packet(prev_controller, now))
    THEN U32Less(now + transmit_count * single_frame_max_duration_ms,
                 value(next_controller_packet(prev_controller, now)))
    ELSE TRUE

(***************************************************************************)
(* Program state                                                            *)
(***************************************************************************)
(* PoolHeater::update (PoolHeater.cpp): the poll that mirrors the canonical *)
(* state into the climate component and the sensors.  Every sensor is       *)
(* configured.                                                              *)
(***************************************************************************)
heater_offline_ms == 30000

is_heater_offline(hp, now) ==
    \/ ~has_value(hp.last_heater_frame)
    \/ U32Less(heater_offline_ms, now - value(hp.last_heater_frame))

\* PoolHeater::set_actual_status: <<actual_status_, whether the text sensor
\* was published>>
set_actual_status(actual, status) == <<status, actual # status>>

\* The canonical fields update() hands to publish_sensor_value
update_sensors ==
    {"d01_defrost_start", "d02_defrost_end", "d03_defrosting_cycle_time_minutes",
     "d04_max_defrost_time_minutes", "d05_min_economy_defrost_time_minutes",
     "d06_defrost_eco_mode", "r01_setpoint_cooling", "r02_setpoint_heating",
     "r03_setpoint_auto", "r04_return_diff_cooling",
     "r05_shutdown_temp_diff_when_cooling", "r06_return_diff_heating",
     "r07_shutdown_diff_heating", "r08_min_cool_setpoint", "r09_max_cooling_setpoint",
     "r10_min_heating_setpoint", "r11_max_heating_setpoint", "U02_pulses_per_liter",
     "mode_restrictions", "U01_flow_meter"}

\* publish_sensor_value over every sensor, and the closing publish_state
publish_sensor_values(hp, active) ==
    IF ~active THEN {}
    ELSE {f \in update_sensors : has_value(hp[f])}
         \cup {"actual_status", "heater_status_code", "heater_status_description",
               "heater_status_solution", "climate"}

update_climate(hp, cl) ==
    [mode |-> value_or(hp.mode, cl.mode),
     action |-> IF hp.mode = {CLIMATE_MODE_OFF} THEN CLIMATE_ACTION_OFF
                ELSE value_or(hp.action, cl.action),
     target_temperature |->
         IF has_value(hp.target_temperature) THEN hp.target_temperature
         ELSE cl.target_temperature]

\* [actual_status_, climate, published] after one update()
update(hp, active, actual, cl, now) ==
    LET waiting == IF is_heater_offline(hp, now)
                   THEN set_actual_status(actual, "Waiting for heater")
                   ELSE <<actual, FALSE>>
        connected == set_actual_status(waiting[1], "Connected to heater")
    IN  [actual_status_ |-> connected[1],
         climate |-> update_climate(hp, cl),
         published |-> (IF waiting[2] \/ connected[2] THEN {"actual_status_sensor"} ELSE {})
                       \cup publish_sensor_values(hp, active)]

(***************************************************************************)
VARIABLES
    mode,                              \* Bus::mode
    tx_packets_queue,                  \* Bus::tx_packets_queue (SpinLockQueue::queue)
    data_available,                    \* SpinLockQueue::data_available, a binary semaphore
    previous_sent_packet_,             \* optional millis() of the last burst
    controler_packets_received_,
    previous_controller_packet_time_,  \* optional millis() of the last controller frame
    current_frame,                     \* Bus::current_frame, the Decoder
    registry,                          \* BaseFrame::registry_
    hp_data,                           \* PoolHeater::hp_data_
    passive_mode_,                     \* PoolHeater::passive_mode_
    millis,                            \* the millisecond clock
    tx_wait,                           \* ms left of the TX task's current delay()
    tx_packet,                         \* the frame process_send_queue is sending
    wire_pos,                          \* records of the stream the RX task has taken
    finalized_frame,                   \* history: the last frame finalize() produced
    wire_frame,                        \* history: bytes the sender put on the line
    last_call,                         \* history: what Bus::control returned in the
                                       \* latest step, if that step was a call
    status_raised,                     \* history: the momentary status
                                       \* PoolHeater::control raised in the latest step
    rb_,                               \* Bus::rb_, the ring buffer of pulse records
    current_pulse_,                    \* Bus::current_pulse_, the record the ISR fills
    rx_pc,                             \* where Bus::RxTask stands
    rx_item,                           \* the record Bus::RxTask popped and holds
    rx_staged,                         \* the frame BaseFrame::process has staged
    tx_pc,                             \* where Bus::process_send_queue stands
    update_active_,                    \* PoolHeater::update_active_
    actual_status_,                    \* PoolHeater::actual_status_
    climate,                           \* the climate::Climate members update() assigns
    published,                         \* history: what the latest update() published
    polls,                             \* history: how many times update() ran
    pulse_trace,                       \* history: which half-periods the ISR saw and
                                       \* where each of them is
    enqueue_pc                         \* where each caller of SpinLockQueue::enqueue
                                       \* stands

busVars == <<mode, tx_packets_queue, data_available, previous_sent_packet_, tx_wait, tx_packet>>
rxVars == <<controler_packets_received_, previous_controller_packet_time_, current_frame,
            registry, hp_data, finalized_frame>>
vars == <<mode, tx_packets_queue, data_available, previous_sent_packet_,
          controler_packets_received_, previous_controller_packet_time_, current_frame,
          registry, hp_data, passive_mode_, millis, tx_wait, tx_packet, wire_pos,
          finalized_frame, wire_frame, last_call, status_raised, rb_, current_pulse_,
          rx_pc, rx_item, rx_staged, tx_pc, update_active_, actual_status_, climate,
          published, polls, pulse_trace, enqueue_pc>>
pollVars == <<update_active_, actual_status_, climate, published, polls>>
taskVars == <<rb_, current_pulse_, rx_pc, rx_item, rx_staged, tx_pc, pollVars, pulse_trace,
             enqueue_pc>>

\* The static initializers of the frame classes run in an order the build
\* decides.
RegistryOrders ==
    {<<"FrameConf1", "FrameConf2", "FrameConf3", "FrameConf5", "FrameConf6">>,
     <<"FrameConf6", "FrameConf5", "FrameConf3", "FrameConf2", "FrameConf1">>}

StaticRegistry(order) == [i \in 1..Len(order) |-> base_create(order[i], nullopt)]

\* State after construction and Bus::setup(), with the tasks created
\* The tasks that call SpinLockQueue::enqueue
SemProducers == 2

Producers == 1..SemProducers

InitProgram(order) ==
    /\ mode = BUSMODE_RX
    /\ tx_packets_queue = <<>>
    /\ data_available = FALSE
    /\ previous_sent_packet_ = nullopt
    /\ controler_packets_received_ = FALSE
    /\ previous_controller_packet_time_ = nullopt
    /\ current_frame = Decoder_reset
    /\ registry = StaticRegistry(order)
    /\ hp_data = heat_pump_data_init
    /\ passive_mode_ = TRUE
    /\ millis = 0
    /\ tx_wait = TxStartupDelay
    /\ tx_packet = nullopt
    /\ finalized_frame = nullopt
    /\ last_call = nullopt
    /\ status_raised = STATUS_NONE
    /\ rb_ = <<>>
    /\ current_pulse_ = Pulse(FALSE, 0, FALSE, 0)
    /\ rx_pc = "receive"
    /\ rx_item = nullopt
    /\ rx_staged = nullopt
    /\ tx_pc = "delay"
    /\ update_active_ = FALSE
    /\ actual_status_ = "Ready"
    /\ climate = [mode |-> CLIMATE_MODE_OFF, action |-> CLIMATE_ACTION_OFF,
                  target_temperature |-> nullopt]
    /\ published = {}
    /\ polls = 0
    /\ pulse_trace = [seen |-> 0, cur |-> 0, rb |-> <<>>, item |-> 0, processed |-> <<>>]
    /\ enqueue_pc = [p \in Producers |-> "idle"]

RxS ==
    [current_frame |-> current_frame, registry |-> registry, hp_data |-> hp_data,
     controler_packets_received_ |-> controler_packets_received_,
     previous_controller_packet_time_ |-> previous_controller_packet_time_,
     finalized_frame |-> finalized_frame]

RxApply(s) ==
    /\ current_frame' = s.current_frame
    /\ registry' = s.registry
    /\ hp_data' = s.hp_data
    /\ controler_packets_received_' = s.controler_packets_received_
    /\ previous_controller_packet_time_' = s.previous_controller_packet_time_
    /\ finalized_frame' = s.finalized_frame

(***************************************************************************)
(* Receiving a pulse stream: frames drawn from a bounded set are put on the *)
(* line in either polarity, intact or with one bit flipped, and end with    *)
(* the transmitter's own burst shape or with one closing record.            *)
(***************************************************************************)
ZeroPayload == [i \in TypeIdx |-> 0]

\* 0x81 0x19 ...: power on, heating only, heat; setpoints 28.0 / 27.5 / 20.0
SamplePayload == <<129, 25, 116, 115, 100, 62, 64, 62, 64, 0>>

CodecPayloads == {ZeroPayload, SamplePayload}
CodecTypes == {FRAME_ID_CONF_1, 153}
CodecLengths == {frame_data_length_short, frame_data_length}

\* A frame of the given length whose last byte is its checksum
MakeFrame(type, payload, len) ==
    set_checksum([data |-> [i \in DataIdx |->
                               IF i = 0 THEN type
                               ELSE IF i <= len - 2 THEN payload[i] ELSE 0],
                  data_len |-> len])

CodecFrames ==
    {MakeFrame(t, p, l) : t \in CodecTypes, p \in CodecPayloads, l \in CodecLengths}

\* What a sender of the other polarity puts on the line for packet
Complement(packet) ==
    [packet EXCEPT !.data =
        [i \in DataIdx |-> IF i < packet.data_len THEN 255 - packet.data[i] ELSE packet.data[i]]]

FlippedByte == 5
FlippedBit == 0

FlipBit(packet) ==
    [packet EXCEPT !.data[FlippedByte] =
        IF get_bit(@, FlippedBit) THEN clear_bit(@, FlippedBit) ELSE set_bit(@, FlippedBit)]

\* The decoder once a preamble and every bit of packet have been appended:
\* started, on a byte boundary, holding the bytes
Loaded(packet) == [start_new_frame EXCEPT !.packet = packet]

\* Closing records after a single copy: the inter-frame gap, the burst
\* trailer, a 50 ms idle, and a record whose second edge read the same level
Endings ==
    [gap |-> LowHigh(bit_low_duration_ms, controler_frame_spacing_duration_ms),
     trailer |-> LowHigh(bit_low_duration_ms, controler_group_spacing_ms),
     idle |-> LowHigh(bit_low_duration_ms, frame_end_threshold_ms),
     glitch |-> Pulse(FALSE, bit_low_duration_ms * 1000, FALSE, bit_low_duration_ms * 1000)]

\* Closing records of the longer streams: two idles in a row, in the shapes
\* the line can give them
FramerTails ==
    [idle_idle |-> <<Endings.idle, Endings.idle>>,
     idle_trailer |-> <<Endings.idle, Endings.trailer>>,
     trailer_idle |-> <<Endings.trailer, Endings.idle>>,
     glitch_trailer |-> <<Endings.glitch, Endings.trailer>>]

\* Bits that follow a copy without a preamble of their own
RunOnBits == 8

\* Bits of a copy that arrive before a pulse of no valid width
CutBits == 12

WireLen(packet, ending) ==
    IF ending = "burst" THEN TxWaveLen(packet, default_frame_transmit_count)
    ELSE IF ending \in DOMAIN Endings THEN CopyLen(packet) + 1
    ELSE IF ending \in DOMAIN FramerTails THEN CopyLen(packet) + Len(FramerTails[ending])
    ELSE IF ending = "run_on" THEN CopyLen(packet) + RunOnBits + 1
    ELSE 1 + CutBits + 1 + 8 + 1

WireRecord(packet, ending, k) ==
    IF ending = "burst" THEN TxRecord(packet, default_frame_transmit_count, k)
    ELSE IF ending \in DOMAIN Endings
         THEN IF k <= CopyLen(packet) THEN TxRecord(packet, 1, k) ELSE Endings[ending]
    ELSE IF ending \in DOMAIN FramerTails
         THEN IF k <= CopyLen(packet) THEN TxRecord(packet, 1, k)
              ELSE FramerTails[ending][k - CopyLen(packet)]
    ELSE IF ending = "run_on"
         THEN IF k <= CopyLen(packet) THEN TxRecord(packet, 1, k)
              ELSE IF k <= CopyLen(packet) + RunOnBits
                   THEN TxRecord(packet, 1, 1 + (k - CopyLen(packet)))
              ELSE Endings.trailer
    ELSE IF k <= 1 + CutBits THEN TxRecord(packet, 1, k)
         ELSE IF k = 1 + CutBits + 1 THEN Endings.gap
         ELSE IF k <= 1 + CutBits + 1 + 8 THEN TxRecord(packet, 1, k - 1)
         ELSE Endings.trailer

InitCodec ==
    /\ \E order \in RegistryOrders : InitProgram(order)
    /\ \E f \in CodecFrames, heater \in BOOLEAN, flip \in BOOLEAN,
          ending \in {"burst"} \cup DOMAIN Endings :
          LET sent == IF heater THEN Complement(f) ELSE f
              onwire == IF flip THEN FlipBit(sent) ELSE sent
          IN  /\ wire_frame = [packet |-> onwire, ending |-> ending]
              /\ wire_pos = 0

WireDone == wire_pos >= WireLen(wire_frame.packet, wire_frame.ending)

NextRecord == WireRecord(wire_frame.packet, wire_frame.ending, wire_pos + 1)

\* Bus::RxTask: a record arrives from the ring buffer
RxItem ==
    /\ ~WireDone
    /\ mode = BUSMODE_RX
    /\ ~(current_frame.started /\ NextRecord.duration1 > RxPopTimeoutMs * 1000)
    /\ RxApply(RxTask_item(RxS, NextRecord, millis))
    /\ wire_pos' = wire_pos + 1
    /\ last_call' = nullopt
    /\ status_raised' = STATUS_NONE
    /\ UNCHANGED taskVars
    /\ UNCHANGED <<busVars, passive_mode_, millis, wire_frame>>

\* Bus::RxTask: the pop times out while the line stays high after a low
RxTimeout ==
    /\ ~WireDone
    /\ mode = BUSMODE_RX
    /\ current_frame.started
    /\ NextRecord.duration0 > 0
    /\ NextRecord.duration1 > RxPopTimeoutMs * 1000
    /\ RxApply(RxTask_timeout(RxS, Pulse(NextRecord.level0, NextRecord.duration0, FALSE, 0),
                              millis))
    /\ wire_pos' = wire_pos + 1
    /\ last_call' = nullopt
    /\ status_raised' = STATUS_NONE
    /\ UNCHANGED taskVars
    /\ UNCHANGED <<busVars, passive_mode_, millis, wire_frame>>

NextCodec == RxItem \/ RxTimeout

SpecCodec == InitCodec /\ [][NextCodec]_vars

(***************************************************************************)
(* The framer alone: the same frames, followed by two closing records, by   *)
(* bits that run on past the frame, or cut short by a pulse of no valid     *)
(* width.                                                                   *)
(***************************************************************************)
FramerEndings == DOMAIN FramerTails \cup {"run_on", "cut"}

InitFramer ==
    /\ \E order \in RegistryOrders : InitProgram(order)
    /\ \E f \in CodecFrames, heater \in BOOLEAN, flip \in BOOLEAN, ending \in FramerEndings :
          LET sent == IF heater THEN Complement(f) ELSE f
              onwire == IF flip THEN FlipBit(sent) ELSE sent
          IN  /\ wire_frame = [packet |-> onwire, ending |-> ending]
              /\ wire_pos = 0

SpecFramer == InitFramer /\ [][NextCodec]_vars

(***************************************************************************)
(* Control calls against observed frames: whole frames drawn from a bounded *)
(* set reach the dispatch, calls drawn from a bounded set reach             *)
(* PoolHeater::control.  Passive mode stays as constructed.                 *)
(***************************************************************************)
\* PoolHeater::control(call)
Control(call) ==
    /\ \E target \in deref_target(hp_data, call) :
       \E out \in {Bus_control(registry, call, hp_data, target)} :
          /\ hp_data' = out[2]
          /\ tx_packets_queue' =
                IF passive_mode_ THEN tx_packets_queue
                ELSE queue_frames(tx_packets_queue, out[1], 1)
          /\ data_available' =
                IF passive_mode_ \/ out[1] = <<>> THEN data_available ELSE TRUE
          /\ last_call' = {out[1]}
          /\ status_raised' = control_status(passive_mode_, tx_packets_queue, out[1])
    /\ UNCHANGED taskVars
    /\ UNCHANGED <<mode, previous_sent_packet_, tx_wait, tx_packet,
                   controler_packets_received_, previous_controller_packet_time_,
                   current_frame, registry, passive_mode_, millis, wire_pos,
                   finalized_frame, wire_frame>>

\* id, mode, r01 28.0, r02, r03 20.0, r04 1.0, r05 2.0, r06 1.0, r07 2.0
Conf1Payload(m, r02) == <<129, m, 116, r02, 100, 62, 64, 62, 64, 0>>

\* id, fan byte, d01 -7.0, d02 15.0, d03 45, d04 8
Conf2Payload(fan) == <<130, fan, 46, 90, 90, 16, 0, 0, 0, 0>>

\* r08 8.0, r09 35.0, r10 18.0, r11 30.0
Conf3Payload == <<131, 0, 0, 0, 0, 0, 76, 130, 96, 120>>

\* flow meter on, eco defrost, d05 5, U02 450
Conf5Payload == <<133, 68, 10, 0, 0, 0, 0, 0, 1, 194>>

Observed(type, payload, heater) ==
    [packet |-> MakeFrame(type, payload, frame_data_length), heater |-> heater]

\* mode bytes: 25 is on/heat, 24 is off with the heat bit kept; setpoint
\* bytes: 115 is 27.5, 54 is 27.0 stored without the offset bit
CtlInputs ==
    {Observed(FRAME_ID_CONF_1, Conf1Payload(25, 115), TRUE),
     Observed(FRAME_ID_CONF_1, Conf1Payload(24, 115), TRUE),
     Observed(FRAME_ID_CONF_1, Conf1Payload(25, 54), TRUE),
     Observed(FRAME_ID_CONF_1, Conf1Payload(25, 115), FALSE),
     Observed(FRAME_ID_CONF_2, Conf2Payload(10), TRUE),
     Observed(FRAME_ID_CONF_3, Conf3Payload, TRUE),
     Observed(FRAME_ID_CONF_5, Conf5Payload, TRUE)}

EmptyCall == [f \in call_fields |-> nullopt]

With(call, field, v) == [call EXCEPT ![field] = {v}]

CtlCalls ==
    {EmptyCall}
    \cup {With(EmptyCall, "mode", m) : m \in {CLIMATE_MODE_OFF, CLIMATE_MODE_HEAT}}
    \cup {With(EmptyCall, "target_temperature", t) : t \in {55, 54, 100}}
    \cup {With(With(EmptyCall, "mode", CLIMATE_MODE_HEAT), "target_temperature", 100)}
    \cup {With(EmptyCall, "h02_mode_restrictions", "Heating")}
    \cup {With(EmptyCall, f, 2) :
             f \in {"r04_return_diff_cooling", "r05_shutdown_temp_diff_when_cooling"}}
    \cup {With(EmptyCall, "custom_fan_mode", "scheduled_desc"),
          With(EmptyCall, "fan_mode", "CLIMATE_FAN_LOW")}
    \cup {With(EmptyCall, "d01_defrost_start", -14), With(EmptyCall, "d02_defrost_end", 30),
          With(EmptyCall, "d03_defrosting_cycle_time_minutes", 90)}
    \cup {With(EmptyCall, "d05_min_economy_defrost_time_minutes", 10),
          With(EmptyCall, "u02_pulses_per_liter", 450)}
    \cup {With(EmptyCall, "d06_defrost_eco_mode", TRUE),
          With(EmptyCall, "u01_flow_meter", FALSE)}

InitCtl ==
    /\ \E order \in RegistryOrders : InitProgram(order)
    /\ wire_frame = [packet |-> packet_reset, ending |-> "burst"]
    /\ wire_pos = 0

\* Bus::RxTask took the last record of a frame: the decoder holds its bytes
\* and is finalized
RxFrame(packet) ==
    /\ mode = BUSMODE_RX
    /\ RxApply(finalize_frame([RxS EXCEPT !.current_frame = Loaded(packet)], FALSE, millis))
    /\ last_call' = nullopt
    /\ status_raised' = STATUS_NONE
    /\ UNCHANGED taskVars
    /\ UNCHANGED <<busVars, passive_mode_, millis, wire_frame>>

RxFrameCtl ==
    /\ \E in \in CtlInputs :
          RxFrame(IF in.heater THEN Complement(in.packet) ELSE in.packet)
    /\ UNCHANGED wire_pos

ControlCtl == \E call \in CtlCalls : Control(call)

NextCtl == RxFrameCtl \/ ControlCtl

SpecCtl == InitCtl /\ [][NextCtl]_vars

(***************************************************************************)
(* The registry alone: a bounded number of valid frames, of registered     *)
(* kinds and of two type bytes no class is registered for, from either     *)
(* sender.                                                                 *)
(***************************************************************************)
RegMaxFrames == 3

UnknownTypes == {153, 171}

\* 0x81 with mode byte 5: power on, any mode allowed, cooling; setpoints
\* 33.0 / 27.5 / 20.0
CoolPayload == <<129, 5, 126, 115, 100, 62, 64, 62, 64, 0>>

RegInputs ==
    {Observed(FRAME_ID_CONF_1, Conf1Payload(25, 115), FALSE),
     Observed(FRAME_ID_CONF_1, Conf1Payload(25, 54), FALSE),
     Observed(FRAME_ID_CONF_1, CoolPayload, TRUE),
     Observed(FRAME_ID_CONF_3, Conf3Payload, TRUE),
     Observed(153, SamplePayload, TRUE),
     Observed(153, ZeroPayload, FALSE),
     Observed(171, SamplePayload, FALSE)}

RxFrameReg ==
    /\ wire_pos < RegMaxFrames
    /\ \E in \in RegInputs :
          RxFrame(IF in.heater THEN Complement(in.packet) ELSE in.packet)
    /\ wire_pos' = wire_pos + 1

SpecRegistry == InitCtl /\ [][RxFrameReg]_vars

(***************************************************************************)
(* The poll: frames from the heater are decoded, the update-active switch   *)
(* is turned, and update() runs a bounded number of times.                  *)
(***************************************************************************)
PollMaxFrames == 2
PollMaxUpdates == 2

PollInputs ==
    {Observed(FRAME_ID_CONF_1, Conf1Payload(25, 115), TRUE),
     Observed(FRAME_ID_CONF_1, Conf1Payload(24, 115), TRUE),
     Observed(FRAME_ID_CONF_2, Conf2Payload(10), TRUE),
     Observed(FRAME_ID_CONF_3, Conf3Payload, FALSE)}

RxFramePoll ==
    /\ wire_pos < PollMaxFrames
    /\ \E in \in PollInputs :
          RxFrame(IF in.heater THEN Complement(in.packet) ELSE in.packet)
    /\ wire_pos' = wire_pos + 1

\* PoolHeater::set_update_active
set_update_active(active) ==
    /\ update_active_' = active
    /\ last_call' = nullopt
    /\ status_raised' = STATUS_NONE
    /\ UNCHANGED <<rb_, current_pulse_, rx_pc, rx_item, rx_staged, tx_pc, actual_status_,
                   climate, published, polls, pulse_trace, enqueue_pc>>
    /\ UNCHANGED <<busVars, rxVars, passive_mode_, millis, wire_pos, wire_frame>>

\* PoolHeater::update, called by the component scheduler
Update ==
    /\ polls < PollMaxUpdates
    /\ LET out == update(hp_data, update_active_, actual_status_, climate, millis)
       IN  /\ actual_status_' = out.actual_status_
           /\ climate' = out.climate
           /\ published' = out.published
    /\ polls' = polls + 1
    /\ last_call' = nullopt
    /\ status_raised' = STATUS_NONE
    /\ UNCHANGED <<rb_, current_pulse_, rx_pc, rx_item, rx_staged, tx_pc, update_active_,
                   pulse_trace, enqueue_pc>>
    /\ UNCHANGED <<busVars, rxVars, passive_mode_, millis, wire_pos, wire_frame>>

NextPoll == RxFramePoll \/ (\E active \in BOOLEAN : set_update_active(active)) \/ Update

SpecPoll == InitCtl /\ [][NextPoll]_vars

(***************************************************************************)
(* The program with its clock: the TX worker polls the queue every 1.5 s,   *)
(* calls, passive-mode switches and frames arrive between polls.  Time      *)
(* passes in the worker's delays and bursts.                                *)
(***************************************************************************)
Horizon == 95000
MaxFrames == 1
MaxQueued == 1

\* Polls an idle bus may run through in one step
QuietPolls == {39}

\* 2^32 modulo the poll period: the polls of a worker that started at a
\* multiple of the period fall this many ms before the clock wraps
WrapPhase == ((65536 % TxPollDelay) * (65536 % TxPollDelay)) % TxPollDelay

\* Poll instants before the wrap an idle program may have reached
WrapPolls == {9, 41}

SchedInputs ==
    {Observed(FRAME_ID_CONF_2, Conf2Payload(10), TRUE),
     Observed(FRAME_ID_CONF_2, Conf2Payload(10), FALSE)}

SchedCalls == {With(EmptyCall, "custom_fan_mode", "scheduled_desc")}

Init ==
    /\ \E order \in RegistryOrders : InitProgram(order)
    /\ wire_frame = [packet |-> packet_reset, ending |-> "burst"]
    /\ wire_pos = 0

AsConstructed ==
    /\ \E order \in RegistryOrders : InitProgram(order)
    /\ wire_pos = 0

\* PoolHeater::set_passive_mode
SetPassive(passive) ==
    /\ passive_mode_ # passive
    /\ passive_mode_' = passive
    /\ last_call' = nullopt
    /\ status_raised' = STATUS_NONE
    /\ UNCHANGED taskVars
    /\ UNCHANGED <<busVars, rxVars, millis, wire_pos, wire_frame>>

RxFrameSched ==
    /\ wire_pos < MaxFrames
    /\ \E in \in SchedInputs :
          RxFrame(IF in.heater THEN Complement(in.packet) ELSE in.packet)
    /\ wire_pos' = wire_pos + 1

ControlSched ==
    /\ Len(tx_packets_queue) < MaxQueued
    /\ \E call \in SchedCalls : Control(call)

\* A start_receive that leaves the bus mode alone
start_receive_stuck == [current_frame |-> Decoder_reset, mode |-> BUSMODE_TX]

\* Bus::start_receive with the pin set: what it leaves in the framer and in
\* the bus mode
start_receive == [current_frame |-> Decoder_reset, mode |-> BUSMODE_RX]

\* Bus::TxTask: the delay ends and process_send_queue runs with a frame
\* waiting; a burst starts when every guard lets it
TxPollWithin(horizon) ==
    /\ mode = BUSMODE_RX
    /\ has_next(tx_packets_queue)
    /\ millis + tx_wait <= horizon
    /\ millis' = millis + tx_wait
    /\ tx_wait' = TxPollDelay
    /\ last_call' = nullopt
    /\ status_raised' = STATUS_NONE
    /\ UNCHANGED taskVars
    /\ IF /\ ~current_frame.started
          /\ is_time_for_next(previous_sent_packet_, millis')
          /\ has_time_to_send(controler_packets_received_,
                              previous_controller_packet_time_,
                              default_frame_transmit_count, millis')
       THEN LET taken == try_dequeue(tx_packets_queue, data_available)
            IN  /\ tx_packets_queue' = taken.queue
                /\ data_available' = taken.data_available
                /\ IF taken.ok
                   THEN /\ tx_packet' = taken.element
                        /\ mode' = BUSMODE_TX
                        /\ current_frame' = Decoder_reset
                   ELSE UNCHANGED <<tx_packet, mode, current_frame>>
       ELSE UNCHANGED <<tx_packet, tx_packets_queue, data_available, mode, current_frame>>
    /\ UNCHANGED <<previous_sent_packet_, controler_packets_received_,
                   previous_controller_packet_time_, registry, hp_data, passive_mode_,
                   wire_pos, finalized_frame, wire_frame>>

TxPoll == TxPollWithin(Horizon)

\* Bus::process_send_queue: the eight copies and the trailer are out
TxEnd ==
    /\ mode = BUSMODE_TX
    /\ has_value(tx_packet)
    /\ millis' = millis + BurstDuration(value(tx_packet).packet, default_frame_transmit_count)
    /\ previous_sent_packet_' = {millis'}
    /\ current_frame' = start_receive.current_frame
    /\ mode' = start_receive.mode
    /\ tx_packet' = nullopt
    /\ tx_wait' = TxPollDelay
    /\ last_call' = nullopt
    /\ status_raised' = STATUS_NONE
    /\ UNCHANGED taskVars
    /\ UNCHANGED <<tx_packets_queue, data_available, controler_packets_received_,
                   previous_controller_packet_time_, registry, hp_data, passive_mode_,
                   wire_pos, finalized_frame, wire_frame>>

\* Bus::TxTask: n polls in a row find the queue empty
QuietWithin(n, horizon) ==
    /\ mode = BUSMODE_RX
    /\ ~has_next(tx_packets_queue)
    /\ millis + tx_wait + (n - 1) * TxPollDelay <= horizon
    /\ millis' = millis + tx_wait + (n - 1) * TxPollDelay
    /\ tx_wait' = TxPollDelay
    /\ last_call' = nullopt
    /\ status_raised' = STATUS_NONE
    /\ UNCHANGED taskVars
    /\ UNCHANGED <<mode, tx_packets_queue, data_available, previous_sent_packet_, tx_packet,
                   rxVars, passive_mode_, wire_pos, wire_frame>>

Quiet(n) == QuietWithin(n, Horizon)

\* Nothing arrives after construction and the worker polls the empty queue
\* until the poll that falls WrapPhase + j periods before the clock wraps
LongQuiet(j) ==
    /\ AsConstructed
    /\ millis' = 0 - (WrapPhase + j * TxPollDelay)
    /\ tx_wait' = TxPollDelay
    /\ last_call' = nullopt
    /\ status_raised' = STATUS_NONE
    /\ UNCHANGED taskVars
    /\ UNCHANGED <<mode, tx_packets_queue, data_available, previous_sent_packet_, tx_packet,
                   rxVars, passive_mode_, wire_pos, wire_frame>>

Next ==
    \/ \E passive \in BOOLEAN : SetPassive(passive)
    \/ RxFrameSched
    \/ ControlSched
    \/ TxPoll
    \/ TxEnd
    \/ \E n \in QuietPolls : Quiet(n)
    \/ \E j \in WrapPolls : LongQuiet(j)

Spec == Init /\ [][Next]_vars

(***************************************************************************)
(* The outbound queue while the TX worker sits in its start-up delay: calls *)
(* and passive-mode switches arrive, nothing is taken from the queue.       *)
(***************************************************************************)
QueueInputs == {Observed(FRAME_ID_CONF_2, Conf2Payload(10), TRUE)}

QueueCalls ==
    {With(EmptyCall, "custom_fan_mode", "scheduled_desc"),
     With(EmptyCall, "d01_defrost_start", -10)}

InitQueue ==
    /\ \E order \in RegistryOrders : InitProgram(order)
    /\ wire_frame = [packet |-> packet_reset, ending |-> "burst"]
    /\ wire_pos = 0

RxFrameQueue ==
    /\ \E in \in QueueInputs :
          RxFrame(IF in.heater THEN Complement(in.packet) ELSE in.packet)
    /\ UNCHANGED wire_pos

ControlQueue == \E call \in QueueCalls : Control(call)

NextQueue ==
    \/ \E passive \in BOOLEAN : SetPassive(passive)
    \/ RxFrameQueue
    \/ ControlQueue

SpecQueue == InitQueue /\ [][NextQueue]_vars

(***************************************************************************)
(* The TX worker tick by tick: every poll is a step of its own, frames      *)
(* arrive header first, calls queue frames while passive mode is off.       *)
(***************************************************************************)
TxHorizon == 61500
TxMaxFrames == 1
TxMaxQueued == 1

\* Polls an idle bus runs through in one step: the poll after them falls in
\* the window before the next controller frame
TxQuietPolls == {29}

\* The record the ISR builds from the heading of a frame on the line
HeaderRecord == LowHigh(frame_heading_low_duration_ms, frame_heading_high_duration_ms)

InitTx ==
    /\ \E order \in RegistryOrders : InitProgram(order)
    /\ wire_frame = [packet |-> packet_reset, ending |-> "burst"]
    /\ wire_pos = 0

\* Bus::RxTask took the heading of a frame
RxHeaderTx ==
    /\ mode = BUSMODE_RX
    /\ ~current_frame.started
    /\ RxApply(RxTask_item(RxS, HeaderRecord, millis))
    /\ last_call' = nullopt
    /\ status_raised' = STATUS_NONE
    /\ UNCHANGED taskVars
    /\ UNCHANGED <<busVars, passive_mode_, millis, wire_pos, wire_frame>>

\* Bus::RxTask took the last record of the frame: a heater frame, or the
\* first frame of the controller
RxFrameTx ==
    /\ wire_pos < TxMaxFrames
    /\ current_frame.started
    /\ \E in \in SchedInputs :
          /\ in.heater \/ ~controler_packets_received_
          /\ RxFrame(IF in.heater THEN Complement(in.packet) ELSE in.packet)
    /\ wire_pos' = wire_pos + 1

ControlTx ==
    /\ Len(tx_packets_queue) < TxMaxQueued
    /\ \E call \in SchedCalls : Control(call)

TxPollTx == TxPollWithin(TxHorizon)

QuietTx == \E n \in TxQuietPolls : QuietWithin(n, TxHorizon)

NextTx ==
    \/ SetPassive(FALSE)
    \/ RxHeaderTx
    \/ RxFrameTx
    \/ ControlTx
    \/ TxPollTx
    \/ TxEnd
    \/ QuietTx

SpecTx == InitTx /\ [][NextTx]_vars

\* The burst loop of process_send_queue is bounded: a burst that started ends
SpecTxFair == SpecTx /\ WF_vars(TxEnd)

(***************************************************************************)
(* The transmit worker with frames of many one bits: the longest bursts.   *)
(***************************************************************************)
\* every byte 0xFF but the flags, whose flow-meter bit is clear
DensePayload == <<255, 251, 255, 255, 255, 255, 255, 255, 255, 255>>

BurstInputs ==
    {Observed(FRAME_ID_CONF_5, DensePayload, TRUE),
     Observed(FRAME_ID_CONF_5, Conf5Payload, TRUE)}

BurstCalls ==
    {With(EmptyCall, "u01_flow_meter", TRUE),
     With(EmptyCall, "d06_defrost_eco_mode", FALSE)}

RxFrameBurst ==
    /\ wire_pos < TxMaxFrames
    /\ current_frame.started
    /\ \E in \in BurstInputs : RxFrame(Complement(in.packet))
    /\ wire_pos' = wire_pos + 1

ControlBurst ==
    /\ Len(tx_packets_queue) < TxMaxQueued
    /\ \E call \in BurstCalls : Control(call)

NextBurst ==
    \/ SetPassive(FALSE)
    \/ RxHeaderTx
    \/ RxFrameBurst
    \/ ControlBurst
    \/ TxPollTx
    \/ TxEnd
    \/ QuietTx

SpecBurst == InitTx /\ [][NextBurst]_vars

(***************************************************************************)
(* The transmit worker with more than one frame waiting in the queue.      *)
(***************************************************************************)
OrderMaxQueued == 2

ControlOrder ==
    /\ Len(tx_packets_queue) < OrderMaxQueued
    /\ \E call \in QueueCalls : Control(call)

NextOrder ==
    \/ SetPassive(FALSE)
    \/ RxHeaderTx
    \/ RxFrameTx
    \/ ControlOrder
    \/ TxPollTx
    \/ TxEnd
    \/ QuietTx

SpecOrder == InitTx /\ [][NextOrder]_vars

(***************************************************************************)
(* SpinLockQueue statement by statement: the callers of enqueue against    *)
(* the one caller of try_dequeue.  What runs between spinlock.lock() and   *)
(* spinlock.unlock() is one step; the semaphore calls and the unlocked     *)
(* queue.size() are steps of their own.                                     *)
(***************************************************************************)
SemMaxQueued == 2

SemFrames == {base_create(cls, nullopt) : cls \in {"FrameConf1", "FrameConf2"}}

semVars == <<mode, previous_sent_packet_, tx_wait, rxVars, passive_mode_, millis, wire_pos,
             wire_frame, rb_, current_pulse_, rx_pc, rx_item, rx_staged, pollVars,
             pulse_trace>>

\* enqueue: lock, drop the front while over length, push_back, unlock
Enqueue_push(p, element) ==
    /\ enqueue_pc[p] = "idle"
    /\ Len(tx_packets_queue) < SemMaxQueued
    /\ tx_packets_queue' = enqueue(tx_packets_queue, element)
    /\ enqueue_pc' = [enqueue_pc EXCEPT ![p] = "give"]
    /\ last_call' = nullopt
    /\ status_raised' = STATUS_NONE
    /\ UNCHANGED <<data_available, tx_packet, tx_pc, semVars>>

\* enqueue: xSemaphoreGive(data_available)
Enqueue_give(p) ==
    /\ enqueue_pc[p] = "give"
    /\ data_available' = TRUE
    /\ enqueue_pc' = [enqueue_pc EXCEPT ![p] = "idle"]
    /\ last_call' = nullopt
    /\ status_raised' = STATUS_NONE
    /\ UNCHANGED <<tx_packets_queue, tx_packet, tx_pc, semVars>>

\* try_dequeue: xSemaphoreTake(data_available, 0) succeeded
TryDequeue_take ==
    /\ tx_pc = "delay"
    /\ data_available
    /\ data_available' = FALSE
    /\ tx_pc' = "taken"
    /\ last_call' = nullopt
    /\ status_raised' = STATUS_NONE
    /\ UNCHANGED <<tx_packets_queue, tx_packet, enqueue_pc, semVars>>

\* try_dequeue: lock, front and pop_front unless the queue is empty, unlock
TryDequeue_pop ==
    /\ tx_pc = "taken"
    /\ IF tx_packets_queue # <<>>
       THEN /\ tx_packet' = {Head(tx_packets_queue)}
            /\ tx_packets_queue' = Tail(tx_packets_queue)
            /\ tx_pc' = "popped"
       ELSE /\ tx_pc' = "delay"
            /\ UNCHANGED <<tx_packet, tx_packets_queue>>
    /\ last_call' = nullopt
    /\ status_raised' = STATUS_NONE
    /\ UNCHANGED <<data_available, enqueue_pc, semVars>>

\* try_dequeue: the unlocked queue.size() > 0, xSemaphoreGive, return true;
\* the caller's element goes out of scope
TryDequeue_return ==
    /\ tx_pc = "popped"
    /\ data_available' = (data_available \/ more_available(tx_packets_queue))
    /\ tx_packet' = nullopt
    /\ tx_pc' = "delay"
    /\ last_call' = nullopt
    /\ status_raised' = STATUS_NONE
    /\ UNCHANGED <<tx_packets_queue, enqueue_pc, semVars>>

NextSem ==
    \/ \E p \in Producers : \E element \in SemFrames : Enqueue_push(p, element)
    \/ \E p \in Producers : Enqueue_give(p)
    \/ TryDequeue_take
    \/ TryDequeue_pop
    \/ TryDequeue_return

SpecSem == InitQueue /\ [][NextSem]_vars

(***************************************************************************)
(* The lookup of get_specialized over all the static entries.  The order   *)
(* of static initialisation across translation units is not fixed by the   *)
(* language: the lookup runs under several registration orders.            *)
(***************************************************************************)
MatchOrders ==
    {<<"FrameClock", "FrameConditions1", "FrameConditions1B", "FrameConditions2",
       "FrameConditions2B", "FrameConf1", "FrameConf2", "FrameConf3", "FrameConf4",
       "FrameConf5", "FrameConf6">>,
     <<"FrameConf6", "FrameConf5", "FrameConf4", "FrameConf3", "FrameConf2", "FrameConf1",
       "FrameConditions2B", "FrameConditions2", "FrameConditions1B", "FrameConditions1",
       "FrameClock">>,
     <<"FrameConditions1B", "FrameConditions2B", "FrameConf1", "FrameConditions1",
       "FrameConf4", "FrameConditions2", "FrameClock", "FrameConf2", "FrameConf3",
       "FrameConf5", "FrameConf6">>}

MatchTypes ==
    {FRAME_ID_CLOCK, FRAME_ID_CONDITIONS_1, FRAME_ID_CONDITIONS2, FRAME_ID_CONF_1,
     FRAME_ID_CONF_2, FRAME_ID_CONF_3, FRAME_ID_CONF_4, FRAME_ID_CONF_5, FRAME_ID_CONF_6}
    \cup UnknownTypes

\* id byte, reserved_1, then a payload of no interest to the matchers
MatchPayload(id, reserved_1) == <<id, reserved_1, 46, 90, 90, 16, 0, 0, 0, 0>>

MatchPackets ==
    {MakeFrame(type, MatchPayload(type, r), len) :
        type \in MatchTypes, r \in {5, 6, 0}, len \in {frame_data_length_short,
                                                       frame_data_length}}

InitMatch ==
    /\ \E order \in RegistryOrders : InitProgram(order)
    /\ \E packet \in MatchPackets : wire_frame = [packet |-> packet, ending |-> "burst"]
    /\ wire_pos = 0

\* BaseFrame::get_specialized for the frame on the wire
Lookup(order) ==
    /\ wire_pos = 0
    /\ rx_staged' = {base_create(first_static_match(order, wire_frame.packet), nullopt)}
    /\ wire_pos' = 1
    /\ last_call' = nullopt
    /\ status_raised' = STATUS_NONE
    /\ UNCHANGED <<rb_, current_pulse_, rx_pc, rx_item, tx_pc, pollVars, pulse_trace,
                   enqueue_pc>>
    /\ UNCHANGED <<busVars, rxVars, passive_mode_, millis, wire_frame>>

NextMatch == \E order \in MatchOrders : Lookup(order)

SpecMatch == InitMatch /\ [][NextMatch]_vars

(***************************************************************************)
(* The checksum test of BaseFrame::is_checksum_valid over captured packets *)
(* of both lengths and both polarities, one payload byte taking every      *)
(* value.                                                                   *)
(***************************************************************************)
SumPayload(b) == <<b, 25, 116, 115, 100, 62, 64, 62, 64, 0>>

SumLengths == {frame_data_length_short, frame_data_length}

\* as the controller sends them, as the heater sends them, and damaged
SumPackets ==
    LET sent == {MakeFrame(FRAME_ID_CONF_1, SumPayload(b), len) :
                    b \in 0..255, len \in SumLengths}
    IN  sent \cup {inverse(p) : p \in sent}
             \cup {[p EXCEPT !.data[get_checksum_pos(p)] = (@ + 1) % 256] : p \in sent}

InitSum ==
    /\ \E order \in RegistryOrders : InitProgram(order)
    /\ \E packet \in SumPackets : wire_frame = [packet |-> packet, ending |-> "burst"]
    /\ wire_pos = 0

\* BaseFrame::is_checksum_valid(inverted) on the captured packet: what it
\* returns and the flag it sets
CheckSum ==
    /\ wire_pos = 0
    /\ rx_staged' = {[valid |-> is_checksum_valid_inv(wire_frame.packet)[1],
                       inverted |-> is_checksum_valid_inv(wire_frame.packet)[2]]}
    /\ wire_pos' = 1
    /\ last_call' = nullopt
    /\ status_raised' = STATUS_NONE
    /\ UNCHANGED <<rb_, current_pulse_, rx_pc, rx_item, tx_pc, pollVars, pulse_trace,
                   enqueue_pc>>
    /\ UNCHANGED <<busVars, rxVars, passive_mode_, millis, wire_frame>>

SpecSum == InitSum /\ [][CheckSum]_vars

(***************************************************************************)
(* The contexts step by step: the edge ISR, the RX worker between its       *)
(* ring-buffer pop and the end of the dispatch, the TX worker between its   *)
(* guards and the end of the burst, and the caller of PoolHeater::control.  *)
(* No lock orders them: every interleaving of their steps is a behaviour.   *)
(***************************************************************************)
ConcHorizon == 16500
ConcMaxFrames == 1
ConcMaxQueued == 1

\* Records the ring buffer holds in this model
RbCapacity == 2

\* Microseconds the ISR measures between edges
LowTimes == {frame_heading_low_duration_ms * 1000}
HighTimes == {frame_heading_high_duration_ms * 1000, bit_long_high_duration_ms * 1000}

ConcInputs == {Observed(FRAME_ID_CONF_2, Conf2Payload(10), TRUE)}

InitConc ==
    /\ \E order \in RegistryOrders : InitProgram(order)
    /\ wire_frame = [packet |-> packet_reset, ending |-> "burst"]
    /\ wire_pos = 0

\* xRingbufferSendFromISR: the record is stored when there is room for it,
\* and refused otherwise
xRingbufferSendFromISR(rb, item) == IF Len(rb) < RbCapacity THEN Append(rb, item) ELSE rb

\* Bus::isr_handler on a rising edge, elapsed us after the previous edge
isr_handler_rising(elapsed) ==
    /\ mode # BUSMODE_TX
    /\ current_pulse_.duration0 = 0
    /\ current_pulse_' = [current_pulse_ EXCEPT !.level0 = FALSE, !.duration0 = elapsed]
    /\ last_call' = nullopt
    /\ status_raised' = STATUS_NONE
    /\ UNCHANGED <<pollVars, enqueue_pc>>
    /\ UNCHANGED <<rb_, rx_pc, rx_item, rx_staged, tx_pc>>
    /\ UNCHANGED <<busVars, rxVars, passive_mode_, millis, wire_pos, wire_frame>>

\* Bus::isr_handler on the falling edge that completes the record
isr_handler_falling(elapsed) ==
    /\ mode # BUSMODE_TX
    /\ current_pulse_.duration0 > 0
    /\ rb_' = xRingbufferSendFromISR(
                 rb_, [current_pulse_ EXCEPT !.level1 = TRUE, !.duration1 = elapsed])
    /\ current_pulse_' = Pulse(FALSE, 0, FALSE, 0)
    /\ last_call' = nullopt
    /\ status_raised' = STATUS_NONE
    /\ UNCHANGED <<pollVars, enqueue_pc>>
    /\ UNCHANGED <<rx_pc, rx_item, rx_staged, tx_pc>>
    /\ UNCHANGED <<busVars, rxVars, passive_mode_, millis, wire_pos, wire_frame>>

\* Bus::RxTask: xRingbufferReceive returns a record and the mode is looked at
RxTask_receive ==
    /\ rx_pc = "receive"
    /\ rb_ # <<>>
    /\ rb_' = Tail(rb_)
    /\ IF mode = BUSMODE_RX
       THEN rx_pc' = "process" /\ rx_item' = {Head(rb_)}
       ELSE UNCHANGED <<rx_pc, rx_item>>
    /\ last_call' = nullopt
    /\ status_raised' = STATUS_NONE
    /\ UNCHANGED <<pollVars, enqueue_pc>>
    /\ UNCHANGED <<current_pulse_, rx_staged, tx_pc>>
    /\ UNCHANGED <<busVars, rxVars, passive_mode_, millis, wire_pos, wire_frame>>

\* Bus::RxTask: process_pulse on the record it holds
RxTask_process ==
    /\ rx_pc = "process"
    /\ RxApply(RxTask_item(RxS, value(rx_item), millis))
    /\ rx_pc' = "receive"
    /\ rx_item' = nullopt
    /\ last_call' = nullopt
    /\ status_raised' = STATUS_NONE
    /\ UNCHANGED <<pollVars, enqueue_pc>>
    /\ UNCHANGED <<rb_, current_pulse_, rx_staged, tx_pc>>
    /\ UNCHANGED <<busVars, passive_mode_, millis, wire_pos, wire_frame>>

\* The same steps when no record is kept of the half-periods
IsrRising(elapsed) == isr_handler_rising(elapsed) /\ UNCHANGED pulse_trace

IsrFalling(elapsed) == isr_handler_falling(elapsed) /\ UNCHANGED pulse_trace

RxPop == RxTask_receive /\ UNCHANGED pulse_trace

RxProcess == RxTask_process /\ UNCHANGED pulse_trace

\* The decoder as Decoder::finalize hands it to BaseFrame::process
Finalized(d, inverted) ==
    IF inverted
    THEN [d EXCEPT !.packet = inverse(d.packet), !.source_ = SOURCE_HEATER,
                   !.finalized = TRUE]
    ELSE [d EXCEPT !.source_ = SOURCE_CONTROLLER, !.finalized = TRUE]

\* Bus::RxTask with the last record of a valid frame, up to the stage() call
\* of BaseFrame::process
RxStage(packet) ==
    /\ rx_pc = "receive"
    /\ mode = BUSMODE_RX
    /\ wire_pos < ConcMaxFrames
    /\ is_size_valid(packet)
    /\ is_checksum_valid_inv(packet)[1]
    /\ LET d == Finalized(Loaded(packet), is_checksum_valid_inv(packet)[2])
           found == get_specialized(registry, d.packet)
       IN  /\ current_frame' = d
           /\ registry' = [found[1] EXCEPT ![found[2]] = stage(found[1][found[2]], d)]
           /\ rx_staged' = {[idx |-> found[2], d |-> d]}
    /\ rx_pc' = "staged"
    /\ wire_pos' = wire_pos + 1
    /\ last_call' = nullopt
    /\ status_raised' = STATUS_NONE
    /\ UNCHANGED <<pollVars, enqueue_pc, pulse_trace>>
    /\ UNCHANGED <<rb_, current_pulse_, rx_item, tx_pc>>
    /\ UNCHANGED <<busVars, controler_packets_received_, previous_controller_packet_time_,
                   hp_data, finalized_frame, passive_mode_, millis, wire_frame>>

\* BaseFrame::process from parse() on, and the rest of Bus::finalize_frame
RxParse ==
    /\ rx_pc = "staged"
    /\ LET st == value(rx_staged)
           out == process_staged(registry, st.idx, registry[st.idx], hp_data,
                                 st.d.packet, millis)
       IN  RxApply(finalize_frame_result(RxS, finalize_result(st.d, out), FALSE, millis))
    /\ rx_pc' = "receive"
    /\ rx_staged' = nullopt
    /\ last_call' = nullopt
    /\ status_raised' = STATUS_NONE
    /\ UNCHANGED <<pollVars, enqueue_pc, pulse_trace>>
    /\ UNCHANGED <<rb_, current_pulse_, rx_item, tx_pc>>
    /\ UNCHANGED <<busVars, passive_mode_, millis, wire_pos, wire_frame>>

\* Bus::process_send_queue up to its last guard
TxGuards ==
    /\ tx_pc = "delay"
    /\ mode = BUSMODE_RX
    /\ has_next(tx_packets_queue)
    /\ millis + tx_wait <= ConcHorizon
    /\ millis' = millis + tx_wait
    /\ tx_wait' = TxPollDelay
    /\ tx_pc' = IF /\ ~current_frame.started
                   /\ is_time_for_next(previous_sent_packet_, millis')
                   /\ has_time_to_send(controler_packets_received_,
                                       previous_controller_packet_time_,
                                       default_frame_transmit_count, millis')
                THEN "guarded" ELSE "delay"
    /\ last_call' = nullopt
    /\ status_raised' = STATUS_NONE
    /\ UNCHANGED <<pollVars, enqueue_pc, pulse_trace>>
    /\ UNCHANGED <<rb_, current_pulse_, rx_pc, rx_item, rx_staged>>
    /\ UNCHANGED <<mode, tx_packets_queue, data_available, previous_sent_packet_, tx_packet,
                   rxVars, passive_mode_, wire_pos, wire_frame>>

\* Bus::process_send_queue: try_dequeue and the switch to BUSMODE_TX
TxSwitch ==
    /\ tx_pc = "guarded"
    /\ LET taken == try_dequeue(tx_packets_queue, data_available)
       IN  /\ tx_packets_queue' = taken.queue
           /\ data_available' = taken.data_available
           /\ IF taken.ok
              THEN tx_packet' = taken.element /\ mode' = BUSMODE_TX /\ tx_pc' = "switched"
              ELSE UNCHANGED <<tx_packet, mode>> /\ tx_pc' = "delay"
    /\ last_call' = nullopt
    /\ status_raised' = STATUS_NONE
    /\ UNCHANGED <<pollVars, enqueue_pc, pulse_trace>>
    /\ UNCHANGED <<rb_, current_pulse_, rx_pc, rx_item, rx_staged>>
    /\ UNCHANGED <<previous_sent_packet_, tx_wait, rxVars, passive_mode_, millis, wire_pos,
                   wire_frame>>

\* Bus::process_send_queue: current_frame.reset("TX Start")
TxReset ==
    /\ tx_pc = "switched"
    /\ current_frame' = Decoder_reset
    /\ tx_pc' = "burst"
    /\ last_call' = nullopt
    /\ status_raised' = STATUS_NONE
    /\ UNCHANGED <<pollVars, enqueue_pc, pulse_trace>>
    /\ UNCHANGED <<rb_, current_pulse_, rx_pc, rx_item, rx_staged>>
    /\ UNCHANGED <<busVars, controler_packets_received_, previous_controller_packet_time_,
                   registry, hp_data, finalized_frame, passive_mode_, millis, wire_pos,
                   wire_frame>>

\* Bus::process_send_queue: the copies and the trailer are out, start_receive
TxBurstEnd ==
    /\ tx_pc = "burst"
    /\ millis' = millis + BurstDuration(value(tx_packet).packet, default_frame_transmit_count)
    /\ previous_sent_packet_' = {millis'}
    /\ current_frame' = start_receive.current_frame
    /\ mode' = start_receive.mode
    /\ tx_packet' = nullopt
    /\ tx_wait' = TxPollDelay
    /\ tx_pc' = "delay"
    /\ last_call' = nullopt
    /\ status_raised' = STATUS_NONE
    /\ UNCHANGED <<pollVars, enqueue_pc, pulse_trace>>
    /\ UNCHANGED <<rb_, current_pulse_, rx_pc, rx_item, rx_staged>>
    /\ UNCHANGED <<tx_packets_queue, data_available, controler_packets_received_,
                   previous_controller_packet_time_, registry, hp_data, finalized_frame,
                   passive_mode_, wire_pos, wire_frame>>

ControlConc ==
    /\ Len(tx_packets_queue) < ConcMaxQueued
    /\ \E call \in SchedCalls : Control(call)

NextConc ==
    \/ SetPassive(FALSE)
    \/ \E elapsed \in LowTimes : IsrRising(elapsed)
    \/ \E elapsed \in HighTimes : IsrFalling(elapsed)
    \/ RxPop
    \/ RxProcess
    \/ \E in \in ConcInputs : RxStage(IF in.heater THEN Complement(in.packet) ELSE in.packet)
    \/ RxParse
    \/ ControlConc
    \/ TxGuards
    \/ TxSwitch
    \/ TxReset
    \/ TxBurstEnd

SpecConc == InitConc /\ [][NextConc]_vars

(***************************************************************************)
(* The edge ISR against the RX worker alone, with the worker's pop-timeout  *)
(* branch taken one statement at a time, and every half-period the ISR     *)
(* starts numbered in the order of the edges.                               *)
(***************************************************************************)
IsrMaxEdges == 3

IsrHighTimes == {frame_heading_high_duration_ms * 1000, RxPopTimeoutMs * 1000}

IsrRisingSeen(elapsed) ==
    /\ pulse_trace.seen < IsrMaxEdges
    /\ isr_handler_rising(elapsed)
    /\ pulse_trace' = [pulse_trace EXCEPT !.seen = @ + 1, !.cur = pulse_trace.seen + 1]

IsrFallingSeen(elapsed) ==
    /\ isr_handler_falling(elapsed)
    /\ pulse_trace' = [pulse_trace EXCEPT
                          !.rb = IF Len(rb_) < RbCapacity
                                 THEN Append(@, pulse_trace.cur) ELSE @,
                          !.cur = 0]

RxPopSeen ==
    /\ RxTask_receive
    /\ pulse_trace' = [pulse_trace EXCEPT
                          !.rb = Tail(@),
                          !.item = IF mode = BUSMODE_RX THEN Head(pulse_trace.rb) ELSE @]

RxProcessSeen ==
    /\ RxTask_process
    /\ pulse_trace' = [pulse_trace EXCEPT
                          !.processed = Append(@, pulse_trace.item), !.item = 0]

\* Bus::RxTask: xRingbufferReceive timed out and the test of the else branch
\* passed
RxTimeoutTest ==
    /\ rx_pc = "receive"
    /\ rb_ = <<>>
    /\ mode = BUSMODE_RX
    /\ current_frame.started
    /\ current_pulse_.duration0 > 0
    /\ rx_pc' = "timeout"
    /\ last_call' = nullopt
    /\ status_raised' = STATUS_NONE
    /\ UNCHANGED <<rb_, current_pulse_, rx_item, rx_staged, tx_pc, pollVars, enqueue_pc,
                   pulse_trace>>
    /\ UNCHANGED <<busVars, rxVars, passive_mode_, millis, wire_pos, wire_frame>>

\* memcpy(&pulse, &current_pulse_)
RxTimeoutCopy ==
    /\ rx_pc = "timeout"
    /\ rx_item' = {current_pulse_}
    /\ pulse_trace' = [pulse_trace EXCEPT !.item = pulse_trace.cur]
    /\ rx_pc' = "copied"
    /\ last_call' = nullopt
    /\ status_raised' = STATUS_NONE
    /\ UNCHANGED <<rb_, current_pulse_, rx_staged, tx_pc, pollVars, enqueue_pc>>
    /\ UNCHANGED <<busVars, rxVars, passive_mode_, millis, wire_pos, wire_frame>>

\* memset(&current_pulse_, 0)
RxTimeoutClear ==
    /\ rx_pc = "copied"
    /\ current_pulse_' = Pulse(FALSE, 0, FALSE, 0)
    /\ pulse_trace' = [pulse_trace EXCEPT !.cur = 0]
    /\ rx_pc' = "cleared"
    /\ last_call' = nullopt
    /\ status_raised' = STATUS_NONE
    /\ UNCHANGED <<rb_, rx_item, rx_staged, tx_pc, pollVars, enqueue_pc>>
    /\ UNCHANGED <<busVars, rxVars, passive_mode_, millis, wire_pos, wire_frame>>

\* process_pulse(&pulse), then finalize_frame(true) or current_frame.reset
RxTimeoutProcess ==
    /\ rx_pc = "cleared"
    /\ RxApply(RxTask_timeout(RxS, value(rx_item), millis))
    /\ pulse_trace' = [pulse_trace EXCEPT
                          !.processed = Append(@, pulse_trace.item), !.item = 0]
    /\ rx_pc' = "receive"
    /\ rx_item' = nullopt
    /\ last_call' = nullopt
    /\ status_raised' = STATUS_NONE
    /\ UNCHANGED <<rb_, current_pulse_, rx_staged, tx_pc, pollVars, enqueue_pc>>
    /\ UNCHANGED <<busVars, passive_mode_, millis, wire_pos, wire_frame>>

NextIsr ==
    \/ \E elapsed \in LowTimes : IsrRisingSeen(elapsed)
    \/ \E elapsed \in IsrHighTimes : IsrFallingSeen(elapsed)
    \/ RxPopSeen
    \/ RxProcessSeen
    \/ RxTimeoutTest
    \/ RxTimeoutCopy
    \/ RxTimeoutClear
    \/ RxTimeoutProcess

SpecIsr == InitConc /\ [][NextIsr]_vars

(***************************************************************************)
(* Properties of the transmit scheduler                                     *)
(***************************************************************************)
\* A step in which process_send_queue switches the bus to transmit
BurstStarts == mode = BUSMODE_RX /\ mode' = BUSMODE_TX

\* Milliseconds that really passed from the instant `from` to the instant
\* `to`, clock wrap included
TrueElapsed(from, to) == to - from

\* The longest a burst of transmit_count copies can take
CollisionWindow == default_frame_transmit_count * single_frame_max_duration_ms

\* C1: the TX worker never starts a burst at a moment when the passive flag
\* is set.
C1_PassiveGatesBurst == [][BurstStarts => ~passive_mode_]_vars

\* C2: when a controller is known and has not timed out (its last frame is
\* less than 1.5 x 60 s old) and its next frame, due 60 s after the last one,
\* falls within the collision window after the current time, no burst starts.
C2_CollisionAvoided ==
    [][(/\ has_controller(controler_packets_received_)
        /\ has_value(previous_controller_packet_time_)
        /\ TrueElapsed(value(previous_controller_packet_time_), millis')
             < (delay_between_controller_messages_ms * 3) \div 2
        /\ TrueElapsed(millis', value(previous_controller_packet_time_)
                                  + delay_between_controller_messages_ms) >= 0
        /\ TrueElapsed(millis', value(previous_controller_packet_time_)
                                  + delay_between_controller_messages_ms) <= CollisionWindow)
       => ~BurstStarts]_vars

\* C3: at least delay_between_sending_messages_ms (10 s) really pass between
\* the end of one burst and the start of the next, whatever the value of the
\* millisecond clock.
C3_Throttle ==
    [][(BurstStarts /\ has_value(previous_sent_packet_))
       => TrueElapsed(value(previous_sent_packet_), millis')
            >= delay_between_sending_messages_ms]_vars

(***************************************************************************)
(* Properties of the receive path                                           *)
(***************************************************************************)
Decoded(packet) == Decoder_finalize(Loaded(packet), registry, hp_data, millis).frame

CopyReceived == wire_pos >= CopyLen(wire_frame.packet)

\* C4: a frame of 9 or 12 bytes whose last byte is its checksum, sent as the
\* transmitter sends it, comes out of the receive framer with exactly the
\* bytes that were sent.
C4_RoundTrip ==
    (packet_is_checksum_valid(wire_frame.packet) /\ CopyReceived)
        => /\ has_value(finalized_frame)
           /\ value(finalized_frame).packet = wire_frame.packet

\* C5: for a valid frame b, finalizing the decoder loaded with b gives the
\* bytes b with source Controller, and finalizing the decoder loaded with
\* the complement of b gives the same bytes b with source Heater.
C5_PolarityDual ==
    \A b \in {wire_frame.packet, Complement(wire_frame.packet)} :
        packet_is_checksum_valid(b)
            => /\ Decoded(b) = {[packet |-> b, source_ |-> SOURCE_CONTROLLER]}
               /\ Decoded(Complement(b)) = {[packet |-> b, source_ |-> SOURCE_HEATER]}

\* A stream of heater polarity went through the framer and came out as the
\* complement of the bytes on the line, marked Heater.
C5_Witness ==
    /\ has_value(finalized_frame)
    /\ value(finalized_frame).source_ = SOURCE_HEATER
    /\ value(finalized_frame).packet = Complement(wire_frame.packet)
    /\ packet_is_checksum_valid(Complement(wire_frame.packet))

\* C6: once the stream of a frame candidate whose checksum fails under both
\* polarities has been taken, nothing was dispatched, the canonical state and
\* the registry are as constructed, and the framer is idle.
C6_RejectedEndsIdle ==
    (WireDone /\ ~is_checksum_valid(wire_frame.packet))
        => /\ finalized_frame = nullopt
           /\ hp_data = heat_pump_data_init
           /\ registry \in {StaticRegistry(order) : order \in RegistryOrders}
           /\ ~current_frame.started

C6_NotDispatched ==
    (~is_checksum_valid(wire_frame.packet))
        => /\ finalized_frame = nullopt
           /\ hp_data = heat_pump_data_init
           /\ registry \in {StaticRegistry(order) : order \in RegistryOrders}

(***************************************************************************)
(* Properties of the control functions                                      *)
(***************************************************************************)
Requested(call) == {f \in call_fields : has_value(call[f])}

\* The call fields each frame class reads
TouchedFields(cls) ==
    CASE cls = "FrameConf1" ->
            {"mode", "h02_mode_restrictions", "target_temperature",
             "r04_return_diff_cooling", "r05_shutdown_temp_diff_when_cooling",
             "r06_return_diff_heating", "r07_shutdown_diff_heating"}
      [] cls = "FrameConf2" ->
            {"d01_defrost_start", "d02_defrost_end", "d03_defrosting_cycle_time_minutes",
             "d04_max_defrost_time_minutes", "custom_fan_mode", "fan_mode"}
      [] cls = "FrameConf5" ->
            {"d06_defrost_eco_mode", "u01_flow_meter",
             "d05_min_economy_defrost_time_minutes", "u02_pulses_per_liter"}
      [] OTHER -> {}

\* The packet bytes that carry each call field
OwnedBytes(field) ==
    CASE field \in {"mode", "h02_mode_restrictions", "custom_fan_mode", "fan_mode",
                    "d06_defrost_eco_mode", "u01_flow_meter"} -> {2}
      [] field = "target_temperature" -> {3, 4, 5}
      [] field \in {"d01_defrost_start", "d05_min_economy_defrost_time_minutes"} -> {3}
      [] field = "d02_defrost_end" -> {4}
      [] field = "d03_defrosting_cycle_time_minutes" -> {5}
      [] field \in {"r04_return_diff_cooling", "d04_max_defrost_time_minutes"} -> {6}
      [] field = "r05_shutdown_temp_diff_when_cooling" -> {7}
      [] field = "r06_return_diff_heating" -> {8}
      [] field = "r07_shutdown_diff_heating" -> {9}
      [] field = "u02_pulses_per_liter" -> {9, 10}

RequestedBytes(call) == UNION {OwnedBytes(f) : f \in Requested(call)}

\* The requested value of field equals the value the payload d holds
HeldEqual(d, call, field) ==
    CASE field = "mode" -> value(call[field]) = get_climate_mode(d[2])
      [] field = "h02_mode_restrictions" -> value(call[field]) = get_mode_restriction(d[2])
      [] field = "target_temperature" -> value(call[field]) = get_target_temperature(d)
      [] field = "r04_return_diff_cooling" ->
            value(call[field]) = temperature_extended_decode(d[6])
      [] field = "r05_shutdown_temp_diff_when_cooling" ->
            value(call[field]) = temperature_extended_decode(d[7])
      [] field = "r06_return_diff_heating" ->
            value(call[field]) = temperature_extended_decode(d[8])
      [] field = "r07_shutdown_diff_heating" ->
            value(call[field]) = temperature_extended_decode(d[9])
      [] field = "d01_defrost_start" -> value(call[field]) = temperature_extended_decode(d[3])
      [] field = "d02_defrost_end" -> value(call[field]) = temperature_decode(d[4])
      [] field = "d03_defrosting_cycle_time_minutes" ->
            value(call[field]) = decimal_number_decode(d[5])
      [] field = "d04_max_defrost_time_minutes" ->
            value(call[field]) = decimal_number_decode(d[6])
      [] field = "d05_min_economy_defrost_time_minutes" ->
            value(call[field]) = decimal_number_decode(d[3])
      [] field = "d06_defrost_eco_mode" -> value(call[field]) = get_bit(d[2], 6)
      [] field = "u01_flow_meter" -> value(call[field]) = get_bit(d[2], 2)
      [] field = "u02_pulses_per_liter" ->
            value(call[field]) = large_integer_decode(d[9], d[10])
      [] field \in {"custom_fan_mode", "fan_mode"} ->
            FanMode_from_call(call) = {FanMode_from_raw(d[2] \div 16)}

Entries == 1..Len(registry)

\* C7: a frame returned by control has 12 bytes, a valid checksum, and
\* outside the bytes that carry a requested field it equals, byte for byte,
\* the last decoded frame of its kind.
C7_CloneOfObserved ==
    \A i \in Entries, call \in CtlCalls :
        \A target \in deref_target(hp_data, call) :
            \A f \in control(registry[i], call, hp_data, target)[1] :
                /\ f.packet.data_len = frame_data_length
                /\ packet_is_checksum_valid(f.packet)
                /\ \A b \in 0..(frame_data_length - 2) :
                      b \notin RequestedBytes(call)
                          => f.packet.data[b] = registry[i].packet.data[b]

\* A call for the scheduled fan mode returned the 0x82 frame with nibble 3
\* over the observed low nibble.
C7_Witness ==
    /\ has_value(last_call)
    /\ \E k \in 1..Len(value(last_call)) :
          /\ value(last_call)[k].cls = "FrameConf2"
          /\ value(last_call)[k].packet.data[2] = 16 * 3 + 10
          /\ \E i \in Entries :
                /\ registry[i].cls = "FrameConf2"
                /\ registry[i].packet.data[2] = 10

\* C8: a call whose target temperature is outside [min_target, max_target]
\* returns no frame and leaves the canonical state as it was.
C8_InvalidTargetRejected ==
    \A call \in CtlCalls :
        (/\ has_value(call.target_temperature)
         /\ ~is_temperature_valid(hp_data, value(call.target_temperature)))
            => \A target \in deref_target(hp_data, call) :
                  Bus_control(registry, call, hp_data, target) = <<<<>>, hp_data>>

\* C9: when every value a call requests of a frame equals the value the
\* frame's payload holds, the frame's control returns none.
C9_DiffOnly ==
    \A i \in Entries, call \in CtlCalls :
        (/\ has_value(registry[i].data_)
         /\ \A f \in Requested(call) \cap TouchedFields(registry[i].cls) :
               HeldEqual(value(registry[i].data_), call, f))
            => \A target \in deref_target(hp_data, call) :
                  control(registry[i], call, hp_data, target)[1] = nullopt

\* C10: a call that requests no field a frame reads gets none from that
\* frame's control, whatever the frame holds.
C10_Minimality ==
    \A i \in Entries, call \in CtlCalls :
        Requested(call) \cap TouchedFields(registry[i].cls) = {}
            => \A target \in deref_target(hp_data, call) :
                  control(registry[i], call, hp_data, target)[1] = nullopt

\* A call was answered by the 0x82 frame alone while the 0x81 and 0x85
\* frames held payloads.
C10_Witness ==
    /\ has_value(last_call)
    /\ Len(value(last_call)) = 1
    /\ value(last_call)[1].cls = "FrameConf2"
    /\ \E i \in Entries : registry[i].cls = "FrameConf1" /\ has_value(registry[i].data_)
    /\ \E i \in Entries : registry[i].cls = "FrameConf5" /\ has_value(registry[i].data_)

\* A step in which PoolHeater::control ran
ControlStep == has_value(last_call')

\* C13: the canonical heat-pump state is written only by the RX worker while
\* a frame is decoded; a control call never writes any field of it.
C13_ControlWritesNoState == [][ControlStep => hp_data' = hp_data]_vars

(***************************************************************************)
(* Properties of the outbound queue                                         *)
(***************************************************************************)
\* C18: the outbound queue never holds more than maxWriteLength (8) frames:
\* an enqueue on a queue that holds 8 drops the oldest one.
C18_QueueBounded == Len(tx_packets_queue) <= maxWriteLength

\* A step in which PoolHeater::control queued a frame on a full queue
EnqueueOnFull ==
    /\ ControlStep
    /\ ~passive_mode_
    /\ value(last_call') # <<>>
    /\ Len(tx_packets_queue) >= maxWriteLength

\* C19: an enqueue on a full queue is reported: queue_frame_data returns
\* false and PoolHeater::control raises a momentary error.
C19_FullQueueReported == [][EnqueueOnFull => status_raised' = STATUS_ERROR]_vars

(***************************************************************************)
(* Properties of the transmit worker                                        *)
(***************************************************************************)
\* The framer is Idle and its packet buffer empty
FramerIdle == ~current_frame.started /\ current_frame.packet = packet_reset

\* A step in which a burst ends
BurstEnds == has_value(tx_packet) /\ ~has_value(tx_packet')

TxTick == mode = BUSMODE_RX /\ has_next(tx_packets_queue) /\ millis' # millis

\* What process_send_queue asks for at the instant of the tick
PreconditionsHold ==
    /\ ~current_frame.started
    /\ is_time_for_next(previous_sent_packet_, millis')
    /\ has_time_to_send(controler_packets_received_, previous_controller_packet_time_,
                        default_frame_transmit_count, millis')

\* C16: at a tick that finds a precondition unmet the queue is left as it is
\* and the worker comes back a poll period later; at a tick at which the
\* three preconditions hold the head frame leaves the queue and its burst
\* starts.
C16_RetryUntilDequeued ==
    [][TxTick =>
         IF PreconditionsHold
         THEN /\ tx_packet' = {Head(tx_packets_queue)}
              /\ tx_packets_queue' = Tail(tx_packets_queue)
              /\ mode' = BUSMODE_TX
         ELSE /\ tx_packets_queue' = tx_packets_queue
              /\ tx_packet' = tx_packet
              /\ mode' = BUSMODE_RX
              /\ tx_wait' = TxPollDelay]_vars

\* A second burst has started: its frame sat out the throttled ticks
C16_Witness ==
    /\ mode = BUSMODE_TX
    /\ has_value(tx_packet)
    /\ has_value(previous_sent_packet_)

ExpectedBit(one) == Pulse(FALSE, 1000, TRUE, IF one THEN 3000 ELSE 1000)

ExpectedByte(byte) == [i \in 1..8 |-> ExpectedBit((byte \div (2 ^ (i - 1))) % 2 = 1)]

RECURSIVE ExpectedBytes(_, _)
ExpectedBytes(packet, n) ==
    IF n = 0 THEN <<>>
    ELSE ExpectedBytes(packet, n - 1) \o ExpectedByte(packet.data[n - 1])

ExpectedCopy(packet) ==
    <<Pulse(FALSE, 9000, TRUE, 5000)>> \o ExpectedBytes(packet, packet.data_len)

RECURSIVE ExpectedCopies(_, _)
ExpectedCopies(packet, n) ==
    IF n = 1 THEN ExpectedCopy(packet)
    ELSE ExpectedCopies(packet, n - 1)
         \o <<Pulse(FALSE, 1000, TRUE, 100000)>> \o ExpectedCopy(packet)

ExpectedBurst(packet) == ExpectedCopies(packet, 8) \o <<Pulse(FALSE, 1000, TRUE, 250000)>>

\* C17: the frame taken from the queue goes out as 8 copies, each a 9 ms low
\* + 5 ms high preamble and every byte's bits LSB first (1 ms low, then 3 ms
\* high for 1, 1 ms high for 0), with 7 gaps of 1 ms low + 100 ms high
\* between the copies and one trailer of 1 ms low + 250 ms high at the end.
C17_BurstWaveform ==
    has_value(tx_packet) =>
        TxWave(value(tx_packet).packet, default_frame_transmit_count)
            = ExpectedBurst(value(tx_packet).packet)

C17_Witness ==
    /\ mode = BUSMODE_TX
    /\ has_value(tx_packet)
    /\ value(tx_packet).packet.data_len = frame_data_length
    /\ \E i \in 0..(frame_data_length - 1) :
          /\ get_bit(value(tx_packet).packet.data[i], 1)
          /\ ~get_bit(value(tx_packet).packet.data[i], 6)

(***************************************************************************)
(* Properties of the interleaved contexts                                   *)
(***************************************************************************)
\* C11: a burst never starts while a frame is being received: under every
\* interleaving of the RX and TX workers the framer is not Receiving at the
\* moment the mode is switched to Transmit.
C11_NoBurstWhileReceiving == [][BurstStarts => ~current_frame.started]_vars

\* C12: while the mode is Transmit decoding is suppressed, under every
\* interleaving of the ISR and the workers: no edge is recorded, no record
\* stored, no pulse appended to the framer (it may only be reset), no frame
\* finalized, and outside a control call nothing is written to the registry
\* or the canonical state.
C12_DecodingSuppressed ==
    [][mode = BUSMODE_TX =>
         /\ current_pulse_' = current_pulse_
         /\ Len(rb_') <= Len(rb_)
         /\ current_frame' = current_frame \/ current_frame' = Decoder_reset
         /\ finalized_frame' = finalized_frame
         /\ ~ControlStep => (hp_data' = hp_data /\ registry' = registry)]_vars

\* Every slot holds what its last dispatch transferred
SlotsSettled == \A i \in 1..Len(registry) : registry[i].data_ = registry[i].prev_data_

\* C14: for any registry slot, parse completes before control is invoked
\* again: a control call never sees a slot between stage and transfer.
C14_ControlAfterParse == [][ControlStep => SlotsSettled /\ ~has_value(rx_staged)]_vars

\* A step in which the ISR completes a pulse record
RecordCompleted ==
    /\ current_pulse_.duration0 > 0
    /\ current_pulse_'.duration0 = 0
    /\ rx_pc' = rx_pc

\* C20: when the ring buffer is full as the ISR completes a record, the
\* oldest buffered record is dropped and the new one stored.
C20_FullRingDropsOldest ==
    [][RecordCompleted /\ Len(rb_) = RbCapacity =>
         /\ Len(rb_') = RbCapacity
         /\ SubSeq(rb_', 1, RbCapacity - 1) = Tail(rb_)
         /\ rb_'[RbCapacity].duration0 = current_pulse_.duration0]_vars

(***************************************************************************)
(* Properties of the framer                                                 *)
(***************************************************************************)
\* The record as Bus::RxTask hands it to process_pulse: whole when it was
\* popped, cut at the first edge when the pop timed out
Processed ==
    IF current_frame.started /\ NextRecord.duration1 > RxPopTimeoutMs * 1000
    THEN Pulse(NextRecord.level0, NextRecord.duration0, FALSE, 0)
    ELSE NextRecord

RecordTaken == ~WireDone /\ wire_pos' = wire_pos + 1

DataBit ==
    /\ ~is_start_frame(Processed)
    /\ is_long_bit(Processed) \/ is_short_bit(Processed)

FrameEndIdle ==
    /\ ~is_start_frame(Processed)
    /\ ~is_long_bit(Processed) /\ ~is_short_bit(Processed)
    /\ is_frame_end(Processed)

InvalidPulse ==
    /\ ~is_start_frame(Processed)
    /\ ~is_long_bit(Processed) /\ ~is_short_bit(Processed)
    /\ ~is_frame_end(Processed)

\* C21: a long-bit or short-bit record taken while a frame is being received
\* appends one bit, finalizes nothing and leaves the framer receiving.
C21_BitOnlyAppends ==
    [][(RecordTaken /\ current_frame.started /\ DataBit)
       => /\ current_frame' = append_bit(current_frame, is_long_bit(Processed))
          /\ current_frame'.started
          /\ finalized_frame' = finalized_frame]_vars

\* C22: a frame-end idle taken while an incomplete frame is being received
\* leaves the framer reset and idle.
C22_FrameEndResets ==
    [][(RecordTaken /\ current_frame.started /\ ~is_complete(current_frame) /\ FrameEndIdle)
       => current_frame' = Decoder_reset]_vars

\* C23: the bit that completes a byte beyond the twelfth leaves the framer
\* idle with an empty packet buffer.
C23_OverflowResets ==
    [][(/\ RecordTaken /\ current_frame.started /\ DataBit
        /\ current_frame.packet.data_len >= frame_data_length
        /\ current_frame.bit_current_index = 7)
       => /\ ~current_frame'.started
          /\ current_frame'.packet.data_len = 0]_vars

\* C24 as stated: a pulse of invalid width taken while receiving resets the
\* framer when at least the minimum frame length was accumulated, and
\* otherwise leaves the partial frame as it was.
C24_InvalidPulseKeepsShort ==
    [][(RecordTaken /\ current_frame.started /\ InvalidPulse)
       => IF current_frame.packet.data_len >= frame_data_length_short
          THEN ~current_frame'.started
          ELSE current_frame' = current_frame]_vars

\* C24: a pulse of invalid width taken while an incomplete frame is being
\* received resets the framer, whatever length was accumulated.
C24_InvalidPulseResets ==
    [][(RecordTaken /\ current_frame.started /\ ~is_complete(current_frame) /\ InvalidPulse)
       => current_frame' = Decoder_reset]_vars

C24_Witness ==
    /\ wire_frame.ending = "cut"
    /\ wire_pos = 1 + CutBits + 1
    /\ current_frame = Decoder_reset
    /\ finalized_frame = nullopt

\* C25: when the record before was a frame-end idle, one more frame-end idle
\* finalizes nothing and leaves the framer, the registry and the canonical
\* state as they were.
PreviousWasIdle ==
    /\ wire_pos >= 1
    /\ LET r == WireRecord(wire_frame.packet, wire_frame.ending, wire_pos)
       IN  \/ is_frame_end(r)
           \/ r.duration1 > RxPopTimeoutMs * 1000

C25_SecondIdleNoOp ==
    [][(RecordTaken /\ PreviousWasIdle /\ FrameEndIdle)
       => UNCHANGED <<current_frame, registry, hp_data, finalized_frame>>]_vars

(***************************************************************************)
(* Properties of the registry                                               *)
(***************************************************************************)
FrameTaken == wire_pos' = wire_pos + 1 /\ has_value(finalized_frame')

\* The frame a step dispatched, and the entry it was dispatched to
TakenPacket == value(finalized_frame').packet

TakenIndex == get_specialized(registry, TakenPacket)[2]

PassThrough(reg, type) ==
    {i \in 1..Len(reg) : reg[i].cls = "BaseFrame" /\ reg[i].byte_signature_ = {type}}

SameButStamps(hp, before) ==
    [hp EXCEPT !.last_heater_frame = before.last_heater_frame,
               !.last_controller_frame = before.last_controller_frame] = before

\* C26: a valid frame of a type byte no class is registered for appends one
\* pass-through entry keyed by that byte when none exists and none when one
\* exists, and changes nothing of the canonical state but the timestamp of
\* the last heater or controller frame.
C26_UnknownTypeRegisteredOnce ==
    [][(FrameTaken /\ get_type(TakenPacket) \in UnknownTypes)
       => /\ Len(registry') =
               IF PassThrough(registry, get_type(TakenPacket)) = {}
               THEN Len(registry) + 1 ELSE Len(registry)
          /\ Cardinality(PassThrough(registry', get_type(TakenPacket))) = 1
          /\ SameButStamps(hp_data', hp_data)]_vars

\* Two frames of type byte 153, one from each sender, and nothing else
C26_Witness ==
    /\ wire_pos = 2
    /\ Len(registry) = Cardinality(FrameClasses) + 1
    /\ Cardinality(PassThrough(registry, 153)) = 1
    /\ has_value(hp_data.last_heater_frame)
    /\ has_value(hp_data.last_controller_frame)
    /\ SameButStamps(hp_data, heat_pump_data_init)

Conf1Taken == FrameTaken /\ get_type(TakenPacket) = FRAME_ID_CONF_1

\* hp holds what FrameConf1 reads in the mode byte and in bytes 3, 4 and 5
FoldedConf1(hp, packet) ==
    /\ hp.mode = {get_climate_mode(packet.data[2])}
    /\ hp.mode_restrictions = {get_mode_restriction(packet.data[2])}
    /\ hp.r01_setpoint_cooling = {temperature_decode(packet.data[3])}
    /\ hp.r02_setpoint_heating = {temperature_decode(packet.data[4])}
    /\ hp.r03_setpoint_auto = {temperature_decode(packet.data[5])}

\* C29 as stated: after a valid 0x81 frame from the controller is decoded,
\* the canonical state holds the mode, the mode restriction and the three
\* setpoints of the frame.
C29_ControllerFrameFolded ==
    [][(Conf1Taken /\ value(finalized_frame').source_ = SOURCE_CONTROLLER)
       => FoldedConf1(hp_data', TakenPacket)]_vars

\* C29: a valid 0x81 frame from the heater leaves the canonical state
\* holding the mode, the mode restriction and the three setpoints of the
\* frame; one from the controller changes only the controller timestamp.
C29_HeaterFrameFolded ==
    [][Conf1Taken
       => IF value(finalized_frame').source_ = SOURCE_HEATER
          THEN FoldedConf1(hp_data', TakenPacket)
          ELSE SameButStamps(hp_data', hp_data)]_vars

\* A controller frame taken after the heater's: the heater's values stay
C29_Witness ==
    /\ wire_pos = 2
    /\ has_value(finalized_frame)
    /\ value(finalized_frame).source_ = SOURCE_CONTROLLER
    /\ get_type(value(finalized_frame).packet) = FRAME_ID_CONF_1
    /\ hp_data.mode = {CLIMATE_MODE_COOL}
    /\ hp_data.r01_setpoint_cooling = {temperature_decode(CoolPayload[3])}
    /\ has_value(hp_data.last_controller_frame)

\* C30: whenever the target and both limits are present, the target lies
\* between the limits.
C30_TargetWithinLimits ==
    (/\ has_value(hp_data.target_temperature)
     /\ has_value(hp_data.min_target_temperature)
     /\ has_value(hp_data.max_target_temperature))
        => /\ value(hp_data.min_target_temperature) <= value(hp_data.target_temperature)
           /\ value(hp_data.target_temperature) <= value(hp_data.max_target_temperature)

(***************************************************************************)
(* Properties of the poll                                                   *)
(***************************************************************************)
\* C31: whenever the mode of the canonical state is off, its action is off.
C31_OffModeOffAction ==
    hp_data.mode = {CLIMATE_MODE_OFF} => hp_data.action = {CLIMATE_ACTION_OFF}

\* C32: an update() that runs while the update-active flag is off publishes
\* nothing: no sensor, text, binary or select value and no climate state.
C32_InactivePublishesNothing ==
    [][(polls' = polls + 1 /\ ~update_active_) => published' = {}]_vars

(***************************************************************************)
(* Properties of the pulse path                                             *)
(***************************************************************************)
\* C33: the framer is handed the half-periods in the order the ISR saw
\* their edges, and none of them twice.
C33_InOrderOnce ==
    \A i, j \in DOMAIN pulse_trace.processed :
        (i < j /\ pulse_trace.processed[i] # 0 /\ pulse_trace.processed[j] # 0)
            => pulse_trace.processed[i] < pulse_trace.processed[j]

(***************************************************************************)
(* Properties of the burst estimate                                         *)
(***************************************************************************)
\* A burst that has_time_to_send let through on its comparison of the
\* estimated end of transmit with the next expected controller frame
StartedOnEstimate ==
    /\ BurstEnds
    /\ ~(has_controller(controler_packets_received_)
          /\ is_controller_timeout(previous_controller_packet_time_, millis))
    /\ has_value(next_controller_packet(previous_controller_packet_time_, millis))

\* C34: a burst started because the estimated end of transmit precedes the
\* next expected controller frame takes no longer than the estimate of
\* transmit_count x single_frame_max_duration_ms.
C34_BurstWithinEstimate ==
    [][StartedOnEstimate => TrueElapsed(millis, millis') <= CollisionWindow]_vars

(***************************************************************************)
(* Properties of successive control calls                                   *)
(***************************************************************************)
\* The outbound frame was built for call: each field the call requests and
\* the frame's class reads was changed from the decoded value to the
\* requested one
BuiltFor(frame, call) ==
    /\ Requested(call) \cap TouchedFields(frame.cls) # {}
    /\ \A f \in Requested(call) \cap TouchedFields(frame.cls) :
          /\ HeldEqual(value(frame.data_), call, f)
          /\ ~HeldEqual(value(frame.prev_data_), call, f)

\* C35: of two outbound frames of one kind, queued one after the other from
\* calls that change different fields and built on the same decoded
\* payload, the second still holds what the first call requested.
C35_BothChangesCarried ==
    \A i \in 1..(Len(tx_packets_queue) - 1) : \A c1, c2 \in QueueCalls :
        LET a == tx_packets_queue[i]
            b == tx_packets_queue[i + 1]
        IN  (/\ a.cls = b.cls
             /\ a.prev_data_ = b.prev_data_
             /\ Requested(c1) \cap Requested(c2) = {}
             /\ BuiltFor(a, c1)
             /\ BuiltFor(b, c2))
            => \A f \in Requested(c1) \cap TouchedFields(b.cls) :
                  HeldEqual(value(b.data_), c1, f)

(***************************************************************************)
(* Properties of control before the first decode                            *)
(***************************************************************************)
\* The registry instances of class cls that have staged a frame from the bus
DecodedOnce(cls) ==
    {j \in 1..Len(registry) : registry[j].cls = cls /\ registry[j].packet # packet_reset}

\* C36: every frame a control call returns is of a class whose registry
\* instance has taken a frame from the bus before the call.
C36_NoFrameBeforeDecode ==
    [][ControlStep =>
         \A i \in 1..Len(value(last_call')) :
             DecodedOnce(value(last_call')[i].cls) # {}]_vars

\* A call that asked for a mode (the canonical state took it) returned no
\* frame while nothing had been decoded
C36_Witness ==
    /\ has_value(last_call)
    /\ value(last_call) = <<>>
    /\ has_value(hp_data.mode)
    /\ \A j \in 1..Len(registry) : registry[j].packet = packet_reset

(***************************************************************************)
(* Properties of the transmit order                                         *)
(***************************************************************************)
\* C37: frames go out in the order they were queued, one burst at a time and
\* each frame once: a burst starts only when none is in progress, it takes
\* the oldest frame of the queue and removes it, and any other change of a
\* queue that is not over its length appends behind what is waiting.
C37_FifoOnce ==
    [][/\ BurstStarts =>
            /\ ~has_value(tx_packet)
            /\ tx_packets_queue # <<>>
            /\ tx_packet' = {Head(tx_packets_queue)}
            /\ tx_packets_queue' = Tail(tx_packets_queue)
       /\ (~BurstStarts /\ tx_packets_queue' # tx_packets_queue
              /\ Len(tx_packets_queue) <= maxWriteLength) =>
            /\ Len(tx_packets_queue') > Len(tx_packets_queue)
            /\ SubSeq(tx_packets_queue', 1, Len(tx_packets_queue)) = tx_packets_queue]_vars

\* The frame queued first is on the wire while a different frame, queued
\* after it, waits
C37_Witness ==
    /\ mode = BUSMODE_TX
    /\ has_value(tx_packet)
    /\ tx_packets_queue # <<>>
    /\ value(tx_packet) # tx_packets_queue[1]

(***************************************************************************)
(* Properties of the queue's semaphore                                      *)
(***************************************************************************)
\* No call of enqueue or try_dequeue is in flight
Quiescent == tx_pc = "delay" /\ \A p \in Producers : enqueue_pc[p] = "idle"

\* C38: once every call of enqueue and try_dequeue has returned, a queue that
\* holds an element has its semaphore available.
C38_NoLostWakeup == (Quiescent /\ tx_packets_queue # <<>>) => data_available

\* Two elements wait with the semaphore available, all calls returned
C38_Witness ==
    /\ Quiescent
    /\ Len(tx_packets_queue) = 2
    /\ data_available

(***************************************************************************)
(* Properties of the static matchers                                        *)
(***************************************************************************)
\* The static classes whose matcher accepts the packet
Matching(packet) == {cls \in StaticClasses : static_matches(cls, packet)}

\* C39: at most one statically registered matcher accepts a valid packet,
\* and the class the first-match lookup returned is the one it returns
\* under every other registration order.
C39_OneMatcher ==
    /\ is_checksum_valid(wire_frame.packet) => Cardinality(Matching(wire_frame.packet)) <= 1
    /\ (is_checksum_valid(wire_frame.packet) /\ has_value(rx_staged)) =>
          \A order \in MatchOrders :
              value(rx_staged).cls = first_static_match(order, wire_frame.packet)

\* A 0xD1 frame whose reserved byte is not 0x05 was looked up and went to
\* FrameConditions1B
C39_Witness ==
    /\ wire_pos = 1
    /\ has_value(rx_staged)
    /\ is_checksum_valid(wire_frame.packet)
    /\ get_type(wire_frame.packet) = FRAME_ID_CONDITIONS_1
    /\ value(rx_staged).cls = "FrameConditions1B"

(***************************************************************************)
(* Properties of the checksum                                               *)
(***************************************************************************)
\* C40: no packet of 9 or 12 bytes has a valid checksum both as captured
\* and after the complement of its bytes, so the polarity the checksum test
\* reports is the only one under which the packet is valid.
C40_OnePolarity ==
    /\ ~(/\ packet_is_checksum_valid(wire_frame.packet)
          /\ packet_is_checksum_valid(inverse(wire_frame.packet)))
    /\ (has_value(rx_staged) /\ value(rx_staged).valid) =>
          (value(rx_staged).inverted
             <=> packet_is_checksum_valid(inverse(wire_frame.packet)))

\* A packet captured in the heater's polarity was tested: valid, inverted
C40_Witness ==
    /\ wire_pos = 1
    /\ has_value(rx_staged)
    /\ value(rx_staged).valid
    /\ value(rx_staged).inverted
    /\ wire_frame.packet.data_len = frame_data_length_short

====
